---- MODULE Spec2Model ----
(***************************************************************************)
(* Model of the SharePoint MCP connector (chatgpt-mcp).                    *)
(*                                                                         *)
(* The repository holds several drafts of the same express server.  The    *)
(* hand-written JSON-RPC engine behind POST /mcp exists in three of them   *)
(* with the same control flow and different details:                       *)
(*   "part_000"  src/unnamed/part_000  (v1.2.0, registry mcpTools)         *)
(*   "part_003"  src/unnamed/part_003  (v1.2.0, registry toolHandlers)     *)
(*   "server_ts" src/src/server.ts     (v1.1.1, registry toolHandlers;     *)
(*               src/unnamed/part_004 has the same engine)                 *)
(* The variable `variant` says which draft is running.                     *)
(***************************************************************************)
EXTENDS Integers, Sequences, FiniteSets, TLC

VARIABLES
    variant,      \* which draft of the server is deployed
    phase,        \* per request: "idle", "running", "awaiting", "sent"
    bodyIsArray,  \* per request: Array.isArray(req.body)
    requests,     \* per request: const requests = Array.isArray(body) ? body : [body]
    pos,          \* per request: index of the entry the for-of loop is at
    initialized,  \* per request: let initialized = false
    responses,    \* per request: const responses: any[] = []
    pending,      \* per request: name of the handler whose promise is awaited
    calls,        \* per request: the handler invocations made so far
    httpStatus,   \* per request: status of the HTTP response (0 = none yet)
    wireIsArray,  \* per request: the JSON sent is an array
    wire,         \* per request: the envelopes sent, in order
    now,          \* Date.now(), in milliseconds since the server started
    ticks,        \* how many times the clock has advanced
    queryCache,   \* const queryCache = new Map<string, { results, timestamp }>()
    inFlightQueries, \* const inFlightQueries = new Map<string, Promise<any>>()
    callers,      \* per caller of Graph.search: where it is and what it awaits
    obtained,     \* per text and limit: what the last successful upstream search delivered
    lastReturn,   \* the return or throw of Graph.search made by the last step
    gCall,        \* the call of g under way: its position and its locals
    cachedToken,  \* let cachedToken: { token: string; exp: number } | null = null
    tokenCalls,   \* per caller of getGraphToken: where it is and its locals
    tokenLog,     \* what the calls of getGraphToken did so far, and the last return
    toolCall,     \* the call of a tool handler under way: its position and its locals
    http          \* the HTTP request under way: its route, its headers, its reply

\* The locals of the POST /mcp handler.
mcpVars == <<variant, phase, bodyIsArray, requests, pos, initialized, responses,
             pending, calls, httpStatus, wireIsArray, wire>>

\* The module-level state behind Graph.search.
searchVars == <<now, ticks, queryCache, inFlightQueries, callers, obtained, lastReturn>>

\* The token slot of getGraphToken, its callers and what they did.
tokenVars == <<cachedToken, tokenCalls, tokenLog>>

vars == <<mcpVars, searchVars, gCall, tokenVars, toolCall, http>>

(***************************************************************************)
(* Bounds of the model.                                                    *)
(***************************************************************************)
MaxBatch == 3       \* longest batch a client sends under Spec
MaxBatchConc == 2   \* longest batch a client sends under SpecConc
NumRequests == 2    \* HTTP requests that can be in the handler at once

Requests == 1..NumRequests

Variants == {"part_000", "part_003", "server_ts"}

(***************************************************************************)
(* JSON values.  A key that is absent (undefined) is one of the No*        *)
(* markers; `${undefined}` renders as the text "undefined".                *)
(***************************************************************************)
NoMethod == "<no method>"
NoId == "<no id>"
NullId == "null"
NoName == "<no name>"
NoVersion == "<no protocolVersion>"
NoParams == [present |-> FALSE, name |-> NoName, protocolVersion |-> NoVersion]

Render(v) == IF v \in {NoMethod, NoName, NoVersion, NoId} THEN "undefined" ELSE v

\* new Set(['2024-11-05', '2025-03-26', '2025-06-18'])
supported == {"2024-11-05", "2025-03-26", "2025-06-18"}

RequestedVersions == supported \cup {"1.0"}

\* Names a client may put in tools/call: the two registered tools, the spec's
\* example of an unknown tool, and three names every object inherits from
\* Object.prototype.
ToolNames == {"search", "fetch", "delete", "constructor", "toString", "__proto__"}

\* An element of the body that is the JSON value null.
NullEntry == [shape |-> "null", method |-> NoMethod, id |-> NoId, params |-> NoParams]

\* An element of the body that is a JSON number, string, boolean or array:
\* reading .method or .id of it gives undefined.
PrimitiveEntry == [shape |-> "primitive", method |-> NoMethod, id |-> NoId, params |-> NoParams]

ObjectEntry(m, p) == [shape |-> "object", method |-> m, id |-> NoId, params |-> p]

InitializeEntries ==
    {ObjectEntry("initialize", NoParams)} \cup
    {ObjectEntry("initialize", [present |-> TRUE, name |-> NoName, protocolVersion |-> v]) :
        v \in RequestedVersions}

ToolsCallEntries ==
    {ObjectEntry("tools/call", NoParams)} \cup
    {ObjectEntry("tools/call", [present |-> TRUE, name |-> n, protocolVersion |-> NoVersion]) :
        n \in ToolNames}

OtherEntries ==
    {ObjectEntry("tools/list", NoParams), ObjectEntry("ping", NoParams),
     ObjectEntry(NoMethod, NoParams)}

ObjectEntries == InitializeEntries \cup ToolsCallEntries \cup OtherEntries

Entries == ObjectEntries \cup {NullEntry, PrimitiveEntry}

\* The reduced alphabet of the two-request specification.
ConcEntries ==
    {ObjectEntry("initialize", NoParams),
     ObjectEntry("tools/call", [present |-> TRUE, name |-> "search", protocolVersion |-> NoVersion])}

\* The client numbers the objects of its body "1", "2", ... in order.
IdAt(i) == ToString(i)

Numbered(s) ==
    [i \in DOMAIN s |-> IF s[i].shape = "object" THEN [s[i] EXCEPT !.id = IdAt(i)] ELSE s[i]]

\* Bodies express.json() hands to the handler: an array of any JSON values,
\* or one object.
BodiesOver(alphabet, maxLen) ==
    {[isArray |-> TRUE, entries |-> Numbered(s)] :
        s \in UNION {[1..n -> alphabet] : n \in 0..maxLen}} \cup
    {[isArray |-> FALSE, entries |-> Numbered(<<e>>)] :
        e \in {x \in alphabet : x.shape = "object"}}

Bodies == BodiesOver(Entries, MaxBatch)

ConcBodies == BodiesOver(ConcEntries, MaxBatchConc)

(***************************************************************************)
(* Response envelopes.  A message is the sequence of the fragments of the  *)
(* template literal that builds it.                                        *)
(***************************************************************************)
NoResult == [type |-> "none", protocolVersion |-> NoVersion, tool |-> NoName, payload |-> ""]

ErrorEnvelope(code, message, id) ==
    [kind |-> "error", code |-> code, message |-> message, result |-> NoResult, id |-> id]

ResultEnvelope(result, id) ==
    [kind |-> "result", code |-> 0, message |-> <<>>, result |-> result, id |-> id]

InitializeResult(v) ==
    [type |-> "initialize", protocolVersion |-> v, tool |-> NoName, payload |-> ""]

\* The static catalogue of tools/list: the tools named search and fetch.
ToolsListResult ==
    [type |-> "tools", protocolVersion |-> NoVersion, tool |-> NoName, payload |-> "search,fetch"]

ToolResult(name, payload) ==
    [type |-> "tool", protocolVersion |-> NoVersion, tool |-> name, payload |-> payload]

(***************************************************************************)
(* The loop body of app.post('/mcp'), one entry at a time.  An effect is   *)
(* what processing one entry does: push an envelope (and perhaps set       *)
(* initialized), suspend at `await handler(args)`, or throw out of the     *)
(* loop.                                                                   *)
(***************************************************************************)
Push(env, setsInitialized) ==
    [kind |-> "push", envelope |-> env, setsInitialized |-> setsInitialized,
     handler |-> NoName, message |-> ""]

Await(name) ==
    [kind |-> "await", envelope |-> ErrorEnvelope(0, <<>>, NoId), setsInitialized |-> FALSE,
     handler |-> name, message |-> ""]

Throw(message) ==
    [kind |-> "throw", envelope |-> ErrorEnvelope(0, <<>>, NoId), setsInitialized |-> FALSE,
     handler |-> NoName, message |-> message]

\* const chosen = requested && supported.has(requested) ? requested : '2025-06-18'
\* (part_000, part_003); server.ts answers the literal '2024-11-05'.
chosen(v, requested) ==
    IF v = "server_ts"
    THEN "2024-11-05"
    ELSE IF requested # NoVersion /\ requested \in supported THEN requested ELSE "2025-06-18"

\* HandleInitialize without the check of the flag: every initialize succeeds.
HandleInitializeAgain(v, init, request) ==
    Push(ResultEnvelope(InitializeResult(chosen(v, request.params.protocolVersion)),
                        request.id), TRUE)

\* if (request.method === 'initialize') { if (initialized) ... else ... }
HandleInitialize(v, init, request) ==
    IF init
    THEN Push(ErrorEnvelope(-32600, <<"Already initialized">>, request.id), FALSE)
    ELSE Push(ResultEnvelope(InitializeResult(chosen(v, request.params.protocolVersion)),
                             request.id), TRUE)

\* else if (request.method === 'tools/list') { if (!initialized) ... else ... }
HandleToolsList(init, request) ==
    IF ~init
    THEN Push(ErrorEnvelope(-32600, <<"Not initialized">>, request.id), FALSE)
    ELSE Push(ResultEnvelope(ToolsListResult, request.id), FALSE)

\* The own keys of the registry object (mcpTools / toolHandlers).
RegisteredTools == {"search", "fetch"}

\* What registry[name] evaluates to.  The registry is an object literal, so
\* the lookup also finds what Object.prototype holds: functions
\* (constructor, toString) and, under __proto__, the prototype object.
Lookup(name) ==
    IF name \in RegisteredTools THEN "tool"
    ELSE IF name \in {"constructor", "toString"} THEN "inherited function"
    ELSE IF name = "__proto__" THEN "inherited object"
    ELSE "undefined"

\* The tools/call branch without its try/catch: the error leaves the loop.
ToolErrorEscapes(message, request) == Throw(message)

\* catch (err) { responses.push({ error: { code: -32603, message: err.message } }) }
CatchToolError(message, request) ==
    Push(ErrorEnvelope(-32603, <<message>>, request.id), FALSE)

\* HandleToolsCall without the check of the flag.
HandleToolsCallUngated(init, request) ==
    IF ~request.params.present
    THEN CatchToolError("Cannot destructure property 'name' of 'request.params'", request)
    ELSE IF Lookup(request.params.name) = "undefined"
    THEN Push(ErrorEnvelope(-32601, <<"Tool not found: ", Render(request.params.name)>>,
                            request.id), FALSE)
    ELSE IF Lookup(request.params.name) = "inherited object"
    THEN CatchToolError("handler is not a function", request)
    ELSE Await(request.params.name)

\* The tools/call branch up to the call of the handler.
HandleToolsCall(init, request) ==
    IF ~init
    THEN Push(ErrorEnvelope(-32600, <<"Not initialized">>, request.id), FALSE)
    ELSE IF ~request.params.present
    THEN CatchToolError("Cannot destructure property 'name' of 'request.params'", request)
    ELSE LET name == request.params.name
             handler == Lookup(name)
         IN  IF handler = "undefined"
             THEN Push(ErrorEnvelope(-32601, <<"Tool not found: ", Render(name)>>, request.id),
                       FALSE)
             ELSE IF handler = "inherited object"
             THEN CatchToolError("handler is not a function", request)
             ELSE Await(name)

\* else { error -32601 `Method not found: ${request.method}` }
HandleOtherMethod(request) ==
    Push(ErrorEnvelope(-32601, <<"Method not found: ", Render(request.method)>>, request.id),
         FALSE)

\* Dispatch with the initialization check put in front of every method but
\* initialize.
DispatchGated(v, init, request) ==
    IF request.shape = "null"
    THEN Throw("Cannot read properties of null (reading 'method')")
    ELSE IF request.method = "initialize" THEN HandleInitialize(v, init, request)
    ELSE IF ~init
    THEN Push(ErrorEnvelope(-32600, <<"Not initialized">>, request.id), FALSE)
    ELSE IF request.method = "tools/list" THEN HandleToolsList(init, request)
    ELSE IF request.method = "tools/call" THEN HandleToolsCall(init, request)
    ELSE HandleOtherMethod(request)

\* for (const request of requests) { ... request.method ... }
Dispatch(v, init, request) ==
    IF request.shape = "null"
    THEN Throw("Cannot read properties of null (reading 'method')")
    ELSE IF request.method = "initialize" THEN HandleInitialize(v, init, request)
    ELSE IF request.method = "tools/list" THEN HandleToolsList(init, request)
    ELSE IF request.method = "tools/call" THEN HandleToolsCall(init, request)
    ELSE HandleOtherMethod(request)

(***************************************************************************)
(* How the awaited handler settles.  `up` is the answer of the upstream    *)
(* repository to the handler's call: "ok" or "fail".  The arguments are a  *)
(* JSON object, as the tool schemas require.                               *)
(***************************************************************************)
Returned(payload) == [outcome |-> "returned", payload |-> payload, message |-> ""]

Threw(message) == [outcome |-> "threw", payload |-> "", message |-> message]

\* part_000: mcpTools.search(query) and mcpTools.fetch(id) receive the whole
\* arguments object and catch every error themselves.
McpToolsSettle(name, up) ==
    IF name = "search" THEN Returned("error-general")
    ELSE IF up = "ok" THEN Returned("metadata") ELSE Returned("error-item")

\* part_003: toolHandlers.search and toolHandlers.fetch catch upstream errors
\* and describe them in the result.
CaughtHandlersSettle(name, up) ==
    IF up = "ok" THEN Returned("content") ELSE Returned("failure text")

\* server.ts: toolHandlers.search and toolHandlers.fetch have no try/catch:
\* an upstream error rejects the promise.
ThrowingHandlersSettle(name, up) ==
    IF up = "ok" THEN Returned("content") ELSE Threw("Graph 500")

HandlerSettle(v, name, up) ==
    IF name = "constructor" THEN Returned("the arguments object")
    ELSE IF name = "toString" THEN Returned("[object Undefined]")
    ELSE IF v = "part_000" THEN McpToolsSettle(name, up)
    ELSE IF v = "part_003" THEN CaughtHandlersSettle(name, up)
    ELSE ThrowingHandlersSettle(name, up)

\* const result = await handler(args); responses.push({ result, id })
\* with the catch of the surrounding try.
AfterHandler(settled, name, request) ==
    IF settled.outcome = "threw"
    THEN CatchToolError(settled.message, request)
    ELSE Push(ResultEnvelope(ToolResult(name, settled.payload), request.id), FALSE)

(***************************************************************************)
(* Graph.search of part_000: the query cache and the in-flight map.        *)
(* A Map is a function whose domain is the set of keys it holds.           *)
(***************************************************************************)
NumCallers == 3     \* callers of Graph.search that can be running at once
NumTtlCallers == 2  \* the same under SpecTtl
MaxTicks == 2       \* how many times the clock advances under SpecTtl
MaxExpiries == 1    \* how many times the clock advances under SpecSearch

Callers == 1..NumCallers

TtlCallers == 1..NumTtlCallers

\* const CACHE_TTL = 5 * 60 * 1000; // 5 minutes
CACHE_TTL == 5 * 60 * 1000

\* The clock advances by one millisecond or by just under the TTL.
ClockSteps == {1, CACHE_TTL - 1}

\* Query texts, as sequences of characters.
Queries == {<<"B", "u">>, <<" ", "b", "U", " ">>}

\* The limits: 20 is what the callers pass, 25 is the default of `top`.
Tops == {20, 25}

\* The item sequences the upstream search can deliver in `value`.
NoValue == <<"<undefined>">>

ItemSequences == {<<"item-a">>, <<"item-b", "item-a">>}

lowerOf(ch) == IF ch = "B" THEN "b" ELSE IF ch = "U" THEN "u" ELSE ch

toLowerCase(s) == [i \in 1..Len(s) |-> lowerOf(s[i])]

RECURSIVE trimStart(_)
trimStart(s) == IF s # <<>> /\ Head(s) = " " THEN trimStart(Tail(s)) ELSE s

RECURSIVE trimEnd(_)
trimEnd(s) ==
    IF s # <<>> /\ s[Len(s)] = " " THEN trimEnd(SubSeq(s, 1, Len(s) - 1)) ELSE s

trim(s) == trimEnd(trimStart(s))

\* const normalizedQuery = q.toLowerCase().trim()
normalizedQuery(q) == trim(toLowerCase(q))

\* The key built from the text as the caller typed it.
cacheKeyRaw(q, top) == <<"search:", q, ":", top>>

\* const cacheKey = `search:${normalizedQuery}:${top}`
cacheKey(q, top) == <<"search:", normalizedQuery(q), ":", top>>

\* A map that holds the key set last and nothing else.
MapSetOnly(m, k, v) == [x \in {k} |-> v]

MapSet(m, k, v) == [x \in DOMAIN m \cup {k} |-> IF x = k THEN v ELSE m[x]]

MapDelete(m, k) == [x \in DOMAIN m \ {k} |-> m[x]]

EmptyMap == [x \in {} |-> 0]

\* An entry is served up to and including the age CACHE_TTL.
cacheLiveInclusive(cache, key, clock) ==
    key \in DOMAIN cache /\ clock - cache[key].timestamp <= CACHE_TTL

\* cached && Date.now() - cached.timestamp < CACHE_TTL
cacheLive(cache, key, clock) ==
    key \in DOMAIN cache /\ clock - cache[key].timestamp < CACHE_TTL

\* result.value || []
valueOrEmpty(v) == IF v = NoValue THEN <<>> ELSE v

\* The promise of driveSearch started by caller `owner`.
PendingPromise(owner) == [owner |-> owner, state |-> "pending", value |-> <<>>]

SettledPromise(owner, ok, value) ==
    [owner |-> owner, state |-> IF ok THEN "fulfilled" ELSE "rejected", value |-> value]

\* The slot is set only once the awaited search has come back.
claimSlotAfterAwait(inflight, key, promise) == inflight

\* inFlightQueries.set(cacheKey, searchPromise), before the await
claimSlot(inflight, key, promise) == MapSet(inflight, key, promise)

\* The promise objects held in the map settle with the promise of `owner`.
settleIn(inflight, settled) ==
    [k \in DOMAIN inflight |->
        IF inflight[k].owner = settled.owner /\ inflight[k].state = "pending"
        THEN settled ELSE inflight[k]]

\* The slot is deleted after the cache store only, which a failure skips.
releaseOnSuccess(inflight, key, ok) == IF ok THEN MapDelete(inflight, key) ELSE inflight

\* The slot is deleted when the search failed only: a success keeps it.
releaseOnFailure(inflight, key, ok) == IF ok THEN inflight ELSE MapDelete(inflight, key)

\* finally { inFlightQueries.delete(cacheKey) }
releaseSlot(inflight, key, ok) == MapDelete(inflight, key)

\* A caller that is not in Graph.search.
IdleCaller ==
    [pc |-> "idle", q |-> <<>>, top |-> 0, awaits |-> 0, joinedSettled |-> FALSE,
     outcome |-> "none", value |-> <<>>]

\* No return of Graph.search in the last step.
NoReturn ==
    [q |-> <<>>, top |-> 0, via |-> "none", outcome |-> "none", value |-> <<>>]

\* A joiner gets an empty result when the search it joined failed.
joinedOutcomeSwallowed(promise) ==
    IF promise.state = "fulfilled"
    THEN [outcome |-> "returned", value |-> promise.value]
    ELSE [outcome |-> "returned", value |-> <<>>]

\* const result = await inFlightQueries.get(cacheKey)!; return result
joinedOutcome(promise) ==
    IF promise.state = "fulfilled"
    THEN [outcome |-> "returned", value |-> promise.value]
    ELSE [outcome |-> "threw", value |-> promise.value]

\* The texts and limits a search can be about.
SearchKeys == {<<normalizedQuery(q), top>> : q \in Queries, top \in Tops}

NothingObtained == [present |-> FALSE, q |-> <<>>, value |-> <<>>, at |-> 0]

(***************************************************************************)
(* The upstream client g of part_000 (lines 70-113).  A JavaScript number  *)
(* is a record that is either NaN or holds a value; a header value is a    *)
(* sequence of characters, and the empty sequence stands for the null that *)
(* headers.get returns when the header is absent.                          *)
(***************************************************************************)
\* retries = 3: the default of the parameter, which every caller of g uses.
retries == 3

NaN == [nan |-> TRUE, n |-> 0]

Number(v) == [nan |-> FALSE, n |-> v]

Digits == <<"0", "1", "2", "3", "4", "5", "6", "7", "8", "9">>

isDigit(ch) == \E i \in 1..Len(Digits) : Digits[i] = ch

digitValue(ch) == (CHOOSE i \in 1..Len(Digits) : Digits[i] = ch) - 1

RECURSIVE leadingDigits(_)
leadingDigits(s) ==
    IF s # <<>> /\ isDigit(Head(s)) THEN <<Head(s)>> \o leadingDigits(Tail(s)) ELSE <<>>

RECURSIVE decimal(_)
decimal(d) ==
    IF d = <<>> THEN 0 ELSE decimal(SubSeq(d, 1, Len(d) - 1)) * 10 + digitValue(d[Len(d)])

\* parseInt(text): white space is skipped, then the leading digits are read;
\* NaN when there is none.
parseInt(s) ==
    LET d == leadingDigits(trimStart(s))
    IN  IF d = <<>> THEN NaN ELSE Number(decimal(d))

times(x, k) == IF x.nan THEN NaN ELSE Number(x.n * k)

NoHeader == <<>>

\* The values of Retry-After: none, 2 s, 120 s, an HTTP date.
RetryAfterValues == {NoHeader, <<"2">>, <<"1", "2", "0">>, <<"W", "e", "d", ",">>}

Statuses == {200, 401, 404, 429, 500, 599}

\* A response: its status, its Retry-After header, whether its body is JSON.
Responses == [status : Statuses, retryAfter : RetryAfterValues, json : BOOLEAN]

NoResponse == [status |-> 0, retryAfter |-> NoHeader, json |-> FALSE]

\* Math.random() * 1000, at the ends of its range.
Jitters == {0, 999}

\* A timer fires at its delay or later.
TimerLateness == {0, 1}

\* resp.ok
respOk(resp) == resp.status >= 200 /\ resp.status <= 299

Min(a, b) == IF a <= b THEN a ELSE b

\* Math.min(Math.pow(2, attempt) * 1000 + Math.random() * 1000, 30000)
backoff(attempt, jitter) == Number(Min(2 ^ attempt * 1000 + jitter, 30000))

\* The header read as milliseconds.
retryAfterDelayInMs(retryAfter, attempt, jitter) ==
    IF retryAfter # NoHeader THEN parseInt(retryAfter) ELSE backoff(attempt, jitter)

\* const delay = retryAfter ? parseInt(retryAfter) * 1000 : Math.min(...)
retryAfterDelay(retryAfter, attempt, jitter) ==
    IF retryAfter # NoHeader
    THEN times(parseInt(retryAfter), 1000)
    ELSE backoff(attempt, jitter)

\* resp.status === 429 && attempt < retries
retries429(resp, attempt) == resp.status = 429 /\ attempt < retries

\* resp.status >= 500 && resp.status < 600 && attempt < retries
retries5xx(resp, attempt) == resp.status >= 500 /\ resp.status < 600 /\ attempt < retries

\* setTimeout(resolve, delay): a delay that is NaN or below 1 counts as 1.
timerDelay(delay) == IF delay.nan \/ delay.n < 1 THEN 1 ELSE delay.n

\* The loop goes on with the same attempt number.
sameAttempt(attempt) == attempt

\* attempt++
nextAttempt(attempt) == attempt + 1

NoError == [kind |-> "none", status |-> 0, body |-> ""]

\* let errBody; try { errBody = await resp.json() } catch { errBody = await
\* resp.text() }; throw new Error(`Graph ${resp.status} ...: ${errBody}`).
\* The body of a response is read once: json() consumes it also when it is
\* not JSON, and text() on the consumed body rejects with a TypeError, which
\* is what leaves g.
errorOf(resp) ==
    IF resp.json
    THEN [kind |-> "Graph", status |-> resp.status, body |-> "the JSON body"]
    ELSE [kind |-> "TypeError", status |-> 0, body |-> "Body is unusable"]

\* throw new Error(`Graph request failed after ${retries + 1} attempts`)
exhaustedError == [kind |-> "Graph request failed", status |-> 0, body |-> "after 4 attempts"]

fetchError == [kind |-> "fetch failed", status |-> 0, body |-> ""]

(***************************************************************************)
(* The credential cache: getGraphToken and its slot (part_000:38-67).      *)
(* Times are in milliseconds, as Date.now() gives them; the slot keeps its *)
(* expiry in whole seconds, as the code does.                              *)
(***************************************************************************)
NumTokenCallers == 2   \* callers of getGraphToken that can be under way at once
MaxTokenCalls == 3     \* calls of getGraphToken in one behaviour
MaxTokenTicks == 1     \* how many times the clock advances under SpecToken

TokenCallers == 1..NumTokenCallers

\* cachedToken = null
NoToken == [token |-> "", exp |-> 0]

\* access_token of a token response.
AccessTokens == {"token-a", "token-b"}

\* expires_in of a token response, in seconds: <<>> when the key is absent.
Lifetimes == {<<>>, <<0>>, <<30>>, <<61>>}

\* What the identity provider answers to the POST of line 56.
TokenResponses ==
    [status : {200}, access_token : AccessTokens, expires_in : Lifetimes, body : {""}]
        \cup [status : {400, 401}, access_token : {""}, expires_in : {<<>>},
              body : {"invalid_client"}]

NoTokenResponse == [status |-> 0, access_token |-> "", expires_in |-> <<>>, body |-> ""]

\* The clock moves by half a second or by a second.
TokenClockSteps == {500, 1000}

\* A slot that is served only with more than an hour left.
tokenLiveForAnHour(slot, clock) ==
    slot # NoToken /\ slot.exp * 1000 - clock > 3600 * 1000

\* cachedToken && cachedToken.exp - now > 60, with now = Date.now() / 1000:
\* both sides times 1000, the clock being in milliseconds.
tokenLive(slot, clock) ==
    slot # NoToken /\ slot.exp * 1000 - clock > 60 * 1000

\* data.expires_in || 3600: an absent key and the number 0 are both falsy.
expiresIn(data) ==
    IF data.expires_in = <<>> \/ data.expires_in[1] = 0 THEN 3600 ELSE data.expires_in[1]

\* The slot keeps the token it has when there is one.
storeTokenIfEmpty(slot, data, clock) ==
    IF slot = NoToken
    THEN [token |-> data.access_token, exp |-> (clock \div 1000) + expiresIn(data)]
    ELSE slot

\* cachedToken = { token: data.access_token,
\*                 exp: Math.floor(Date.now() / 1000) + (data.expires_in || 3600) }
storeToken(slot, data, clock) ==
    [token |-> data.access_token, exp |-> (clock \div 1000) + expiresIn(data)]

\* new Error(`Token error: ${resp.status} ${await resp.text()}`)
tokenError(resp) == [kind |-> "Token error", status |-> resp.status, body |-> resp.body]

\* How long before its expiry a token out of a token response is, in ms.
TokenLeft == {expiresIn(r) * 1000 : r \in TokenResponses}

\* A caller that is not inside getGraphToken.
IdleTokenCall == [pc |-> "idle", resp |-> NoTokenResponse]

\* The return or the throw of a call of getGraphToken, at time `at`.
TokenReturn(via, caller, slot, resp, error, at) ==
    [via |-> via, caller |-> caller, token |-> slot.token, exp |-> slot.exp,
     resp |-> resp, error |-> error, at |-> at]

\* calls, exchanges, stores: how many calls started, how many POSTs were
\* made, how many times the slot was written; completed: the response of the
\* exchange whose data were read last and the clock at that time; peak: the
\* most calls that were awaiting their exchange at once; ret: the last
\* return.
EmptyTokenLog ==
    [calls |-> 0, exchanges |-> 0, stores |-> 0, peak |-> 0,
     completed |-> [resp |-> NoTokenResponse, at |-> 0],
     ret |-> TokenReturn("none", 0, NoToken, NoTokenResponse, NoError, 0)]

\* A call of g that has not started.  tokenLeft: how many ms before its
\* expiry the token of line 71 was when getGraphToken returned it;
\* tokenResp: the answer to the token exchange that made getGraphToken
\* throw; slept: the sum of the delays of the timers awaited since line 71,
\* which is the least time that has gone by since.
IdleCall ==
    [pc |-> "idle", attempt |-> 0, issued |-> 0, resp |-> NoResponse,
     delay |-> Number(0), waited |-> 0, error |-> NoError, only429 |-> TRUE,
     tokenLeft |-> 0, tokenResp |-> NoTokenResponse, slept |-> 0]

(***************************************************************************)
(* The tools search and fetch: mcpTools (part_000:180-271) and             *)
(* toolHandlers (part_003:96-167, server.ts:93-149).                       *)
(***************************************************************************)
MaxIds == 2   \* longest ids array of a fetch call

\* The arguments of a fetch call: id is "" when the key is absent, ids is
\* <<>> when the key is absent or the array is empty.
FetchArgs ==
    [id : {"", "item-a", "item-b"},
     ids : UNION {[1..n -> {"item-a", "item-b"}] : n \in 0..MaxIds}]

\* What Graph.getItemById resolves with: whether the item has the facet
\* `file`, its meta.file.mimeType and its meta.size, <<>> when absent.
Metas ==
    [file : {TRUE},
     mime : {<<>>, <<"text", "/", "plain">>, <<"application", "/", "json">>,
             <<"application", "/", "pdf">>},
     size : {<<>>, <<999999>>, <<1000000>>}]
        \cup [file : {FALSE}, mime : {<<>>}, size : {<<>>}]

\* The marker that ends the preview text of a search record.
fetchMarker ==
    <<"[", "C", "a", "l", "l", " ", "f", "e", "t", "c", "h", "(", "i", "d", ")", " ",
      "f", "o", "r", " ", "f", "u", "l", "l", " ", "c", "o", "n", "t", "e", "n", "t", "]">>

\* `${item.name} | ${item.webUrl || ''} | [Call fetch(id) for full content]`
\*     .slice(0, 500)
\* on sequences of characters; an item without webUrl has webUrl = <<>>.
previewText(item) ==
    LET sep == <<" ", "|", " ">>
        whole == item.name \o sep \o item.webUrl \o sep \o fetchMarker
    IN  SubSeq(whole, 1, Min(Len(whole), 500))

\* The messages of the errors that Graph.search rejects with.
SearchErrors == {<<"Graph", "429">>, <<"Graph", "500">>, <<"Body is unusable">>}

\* mime && (mime.startsWith('text/') || ['application/json', 'application/xml',
\* 'application/javascript'].includes(mime))
isText(mime) ==
    /\ mime # <<>>
    /\ \/ Len(mime) >= 2 /\ SubSeq(mime, 1, 2) = <<"text", "/">>
       \/ mime \in {<<"application", "/", "json">>, <<"application", "/", "xml">>,
                    <<"application", "/", "javascript">>}

\* typeof size === 'number' ? size < 1_000_000 : false
under1MB(size) == size # <<>> /\ size[1] < 1000000

\* The ids that a fetch call works on.  part_003: (Array.isArray(ids) &&
\* ids.length > 0) ? ids : (id ? [id] : []); part_000: none when !id;
\* server.ts: the id as it is.
targetIds(v, args) ==
    IF v = "part_003" /\ args.ids # <<>> THEN args.ids
    ELSE IF v # "server_ts" /\ args.id = "" THEN <<>>
    ELSE <<args.id>>

\* No tool handler is running.  ids: the ids worked on and at: the index of
\* the one the handler is at; read, downloaded: the ids that
\* Graph.getItemById and Graph.downloadById were called with, in order;
\* metas: what Graph.getItemById resolved with, per index (none when it
\* rejected); failed: the indexes at which an upstream call rejected;
\* content: the parts of the result so far; outcome: "returned" or "threw";
\* query: the text that search was called with, as a sequence of characters.
IdleTool ==
    [pc |-> "idle", tool |-> "", ids |-> <<>>, at |-> 0, read |-> <<>>,
     downloaded |-> <<>>, metas |-> <<>>, failed |-> {}, content |-> <<>>,
     outcome |-> "none", query |-> <<>>]

\* The parts for one id are pushed and the for-of loop goes to the next id,
\* or the handler returns.
afterItem(call, parts) ==
    LET more == [call EXCEPT !.content = @ \o parts]
    IN  IF call.at < Len(call.ids)
        THEN [more EXCEPT !.pc = "meta", !.at = @ + 1,
                          !.read = Append(@, call.ids[call.at + 1])]
        ELSE [more EXCEPT !.pc = "done", !.outcome = "returned"]

\* The catch block returns what it has and the ids that follow are left out.
caughtEndsBatch(v, call) ==
    IF v = "server_ts"
    THEN [call EXCEPT !.pc = "done", !.outcome = "threw"]
    ELSE [call EXCEPT !.pc = "done", !.outcome = "returned",
                      !.content = @ \o <<[type |-> "text", says |-> "Fetch failed",
                                          at |-> call.at]>>]

\* An await of the fetch tool rejects.  part_003: the catch inside
\* the loop pushes `Fetch failed for ${curId}: ...`; part_000: the catch
\* returns { title: `Item ${id} (error)`, metadata: { error } }; server.ts
\* has no catch and the rejection leaves the handler.
caught(v, call) ==
    IF v = "server_ts"
    THEN [call EXCEPT !.pc = "done", !.outcome = "threw"]
    ELSE afterItem(call, <<[type |-> IF v = "part_000" THEN "object" ELSE "text",
                            says |-> IF v = "part_000" THEN "(error)" ELSE "Fetch failed",
                            at |-> call.at]>>)

\* An item without the facet `file` goes on to meta.file.mimeType, which
\* throws.
notAFileThrows(v, call) == caught(v, call)

\* if (!meta.file): part_003 pushes `Not a file: ${meta.name || curId}` and
\* continues, server.ts returns that text, part_000 returns { title:
\* `${meta.name || id} (not a file)`, text: 'Not a file' }.
notAFile(v, call) ==
    afterItem(call, <<[type |-> IF v = "part_000" THEN "object" ELSE "text",
                       says |-> "Not a file", at |-> call.at]>>)

(***************************************************************************)
(* The routes and the bearer check.  An Authorization header is a pair of  *)
(* its scheme, with the space that follows it, and its credential; <<>> is *)
(* a request without the header.  A REST body { error: text } is the error *)
(* envelope of code 0, a REST result the result envelope without id.       *)
(***************************************************************************)
MaxServed == 3      \* results of POST /mcp/sse that are remembered

\* const bearer = hdr.startsWith('Bearer ') ? hdr.slice(7) : ''; part_000
\* and part_003 let the API key and a token that jwtVerify accepts through
\* and answer 401 otherwise; server.ts lets the API key alone through.
auth(v, hdr) ==
    LET bearer == IF hdr # <<>> /\ hdr[1] = "Bearer " THEN hdr[2] ELSE ""
    IN  IF bearer = "" THEN "401"
        ELSE IF bearer = "MCP_API_KEY" THEN "next"
        ELSE IF v # "server_ts" /\ bearer = "jwt-valid" THEN "next"
        ELSE "401"

\* How draft v registers a route: with the auth middleware in front of the
\* handler ("auth"), with the handler alone ("open"), or not at all.
registration(v, route) ==
    IF route = "POST /mcp" THEN "auth"
    ELSE IF route \in {"POST /tools/search", "POST /tools/fetch"} THEN "open"
    ELSE IF route = "GET /download/:id" /\ v # "server_ts" THEN "open"
    ELSE IF route = "POST /mcp/sse" /\ v = "part_000" THEN "open"
    ELSE "absent"

\* No request is in a handler.  request: the JSON-RPC request of the body
\* (POST /mcp: the entry that follows an initialize in the batch), <<>> on
\* the other routes; arg: the query or id the request carries; awaits: the
\* upstream call awaited; reply: the body sent, <<>> before it is; served:
\* the methods that POST /mcp/sse answered with a result so far.
IdleHttp ==
    [pc |-> "idle", route |-> "", authorization |-> <<>>, request |-> <<>>,
     arg |-> "", awaits |-> "", status |-> 0, reply |-> <<>>, served |-> <<>>]

\* POST /mcp/sse with a session: initialize is answered once, and the tools
\* are served after it only.
SseDispatchWithSession(request, arg) ==
    LET init == \E i \in 1..Len(http.served) : http.served[i] = "initialize"
    IN  IF request.method = "initialize" /\ init
        THEN Push(ErrorEnvelope(-32600, <<"Already initialized">>, request.id), FALSE)
        ELSE IF request.method = "initialize"
        THEN Push(ResultEnvelope(InitializeResult(chosen("part_000",
                                     request.params.protocolVersion)), request.id), TRUE)
        ELSE IF ~init
        THEN Push(ErrorEnvelope(-32600, <<"Not initialized">>, request.id), FALSE)
        ELSE IF request.method = "tools/list"
        THEN Push(ResultEnvelope(ToolsListResult, request.id), FALSE)
        ELSE IF request.method = "tools/call" /\ request.params.name \in {"search", "fetch"}
        THEN IF arg = ""
             THEN Push(ResultEnvelope(ToolResult(request.params.name, ""), request.id), FALSE)
             ELSE Await(request.params.name)
        ELSE Push(ErrorEnvelope(-32601, <<"Method not found: ", Render(request.method)>>,
                                request.id), FALSE)

\* The body of app.post('/mcp/sse') up to its response or its await:
\* const { jsonrpc, method, params = {}, id } = req.body and one `if` per
\* method, none of which reads or writes anything outside the request.
\* mcpTools.search('') and mcpTools.fetch('') return at once.
SseDispatch(request, arg) ==
    IF request.method = "initialize"
    THEN Push(ResultEnvelope(InitializeResult(chosen("part_000",
                                 request.params.protocolVersion)), request.id), FALSE)
    ELSE IF request.method = "tools/list"
    THEN Push(ResultEnvelope(ToolsListResult, request.id), FALSE)
    ELSE IF request.method = "notifications/initialized"
    THEN [Push(ErrorEnvelope(0, <<>>, NoId), FALSE) EXCEPT !.kind = "no content"]
    ELSE IF request.method = "tools/call" /\ request.params.name = "search"
    THEN IF arg = ""
         THEN Push(ResultEnvelope(ToolResult("search", "Found 0 results"), request.id), FALSE)
         ELSE Await("search")
    ELSE IF request.method = "tools/call" /\ request.params.name = "fetch"
    THEN IF arg = ""
         THEN Push(ResultEnvelope(ToolResult("fetch", ""), request.id), FALSE)
         ELSE Await("fetch")
    ELSE IF request.method = "tools/call"
    THEN Push(ErrorEnvelope(-32601, <<"Tool not found: ", Render(request.params.name)>>,
                            request.id), FALSE)
    ELSE Push(ErrorEnvelope(-32601, <<"Method not found: ", Render(request.method)>>,
                            request.id), FALSE)

(***************************************************************************)
(* State of the handler of one HTTP request.                               *)
(***************************************************************************)
\* The flag as a module-level variable: setting it sets it for every request.
MarkInitializedShared(flags, r) == [q \in DOMAIN flags |-> TRUE]

\* initialized = true (part_000:402): the flag is a local of the handler's
\* invocation, so setting it touches the flag of request r alone.
MarkInitialized(flags, r) == [flags EXCEPT ![r] = TRUE]

\* The indexes of the entries of request r for which a function found in
\* the registry was called.
Invoked(r) ==
    {c.idx : c \in calls[r]} \cup (IF phase[r] = "awaiting" THEN {pos[r]} ELSE {})

Init ==
    /\ variant \in Variants
    /\ phase = [r \in Requests |-> "idle"]
    /\ bodyIsArray = [r \in Requests |-> FALSE]
    /\ requests = [r \in Requests |-> <<>>]
    /\ pos = [r \in Requests |-> 1]
    /\ initialized = [r \in Requests |-> FALSE]
    /\ responses = [r \in Requests |-> <<>>]
    /\ pending = [r \in Requests |-> NoName]
    /\ calls = [r \in Requests |-> {}]
    /\ httpStatus = [r \in Requests |-> 0]
    /\ wireIsArray = [r \in Requests |-> FALSE]
    /\ wire = [r \in Requests |-> <<>>]
    /\ now = 0
    /\ ticks = 0
    /\ queryCache = EmptyMap
    /\ inFlightQueries = EmptyMap
    /\ callers = [c \in Callers |-> IdleCaller]
    /\ obtained = [k \in SearchKeys |-> NothingObtained]
    /\ lastReturn = NoReturn
    /\ gCall = IdleCall
    /\ cachedToken = NoToken
    /\ tokenCalls = [c \in TokenCallers |-> IdleTokenCall]
    /\ tokenLog = EmptyTokenLog
    /\ toolCall = IdleTool
    /\ http = IdleHttp

\* An authenticated POST /mcp arrives with a parsed body; the handler sets
\* up its locals (requests, responses, initialized).
Receive(r, body) ==
    /\ phase[r] = "idle"
    /\ phase' = [phase EXCEPT ![r] = "running"]
    /\ bodyIsArray' = [bodyIsArray EXCEPT ![r] = body.isArray]
    /\ requests' = [requests EXCEPT ![r] = body.entries]
    /\ pos' = [pos EXCEPT ![r] = 1]
    /\ initialized' = [initialized EXCEPT ![r] = FALSE]
    /\ responses' = [responses EXCEPT ![r] = <<>>]
    /\ UNCHANGED <<variant, pending, calls, httpStatus, wireIsArray, wire>>
    /\ UNCHANGED <<searchVars, gCall, tokenVars, toolCall, http>>

\* catch (err) { res.status(500).json({ error: { code: -32603, ... }, id: null }) }
OuterCatch(r, message) ==
    /\ phase' = [phase EXCEPT ![r] = "sent"]
    /\ httpStatus' = [httpStatus EXCEPT ![r] = 500]
    /\ wireIsArray' = [wireIsArray EXCEPT ![r] = FALSE]
    /\ wire' = [wire EXCEPT ![r] = <<ErrorEnvelope(-32603, <<message>>, NullId)>>]
    /\ UNCHANGED <<variant, bodyIsArray, requests, pos, initialized, responses, pending>>

\* What an effect does to the locals of request r (the log of handler calls
\* is left to the action).
Apply(r, effect) ==
    IF effect.kind = "throw"
    THEN OuterCatch(r, effect.message)
    ELSE IF effect.kind = "await"
    THEN /\ phase' = [phase EXCEPT ![r] = "awaiting"]
         /\ pending' = [pending EXCEPT ![r] = effect.handler]
         /\ UNCHANGED <<variant, bodyIsArray, requests, pos, initialized, responses,
                        httpStatus, wireIsArray, wire>>
    ELSE /\ responses' = [responses EXCEPT ![r] = Append(@, effect.envelope)]
         /\ initialized' = IF effect.setsInitialized
                           THEN MarkInitialized(initialized, r)
                           ELSE initialized
         /\ pos' = [pos EXCEPT ![r] = @ + 1]
         /\ phase' = [phase EXCEPT ![r] = "running"]
         /\ pending' = [pending EXCEPT ![r] = NoName]
         /\ UNCHANGED <<variant, bodyIsArray, requests, httpStatus, wireIsArray, wire>>

\* One iteration of the for-of loop, up to its end or to the await.
ProcessEntry(r) ==
    /\ phase[r] = "running"
    /\ pos[r] <= Len(requests[r])
    /\ Apply(r, Dispatch(variant, initialized[r], requests[r][pos[r]]))
    /\ UNCHANGED calls
    /\ UNCHANGED <<searchVars, gCall, tokenVars, toolCall, http>>

\* The awaited handler settles and the iteration finishes.
HandlerSettles(r, up) ==
    /\ phase[r] = "awaiting"
    /\ LET settled == HandlerSettle(variant, pending[r], up)
       IN  /\ calls' = [calls EXCEPT ![r] = @ \cup
                          {[idx |-> pos[r], name |-> pending[r],
                            outcome |-> settled.outcome, message |-> settled.message,
                            up |-> up]}]
           /\ Apply(r, AfterHandler(settled, pending[r], requests[r][pos[r]]))
    /\ UNCHANGED <<searchVars, gCall, tokenVars, toolCall, http>>

\* if (Array.isArray(req.body)) res.json(responses) else res.json(responses[0])
Respond(r) ==
    /\ phase[r] = "running"
    /\ pos[r] > Len(requests[r])
    /\ phase' = [phase EXCEPT ![r] = "sent"]
    /\ httpStatus' = [httpStatus EXCEPT ![r] = 200]
    /\ wireIsArray' = [wireIsArray EXCEPT ![r] = bodyIsArray[r]]
    /\ wire' = [wire EXCEPT ![r] = IF bodyIsArray[r] THEN responses[r] ELSE <<responses[r][1]>>]
    /\ UNCHANGED <<variant, bodyIsArray, requests, pos, initialized, responses, pending, calls>>
    /\ UNCHANGED <<searchVars, gCall, tokenVars, toolCall, http>>

\* The response is out and the handler's invocation, with its locals, is gone.
Finish(r) ==
    /\ phase[r] = "sent"
    /\ phase' = [phase EXCEPT ![r] = "idle"]
    /\ bodyIsArray' = [bodyIsArray EXCEPT ![r] = FALSE]
    /\ requests' = [requests EXCEPT ![r] = <<>>]
    /\ pos' = [pos EXCEPT ![r] = 1]
    /\ initialized' = [initialized EXCEPT ![r] = FALSE]
    /\ responses' = [responses EXCEPT ![r] = <<>>]
    /\ pending' = [pending EXCEPT ![r] = NoName]
    /\ calls' = [calls EXCEPT ![r] = {}]
    /\ httpStatus' = [httpStatus EXCEPT ![r] = 0]
    /\ wireIsArray' = [wireIsArray EXCEPT ![r] = FALSE]
    /\ wire' = [wire EXCEPT ![r] = <<>>]
    /\ UNCHANGED variant
    /\ UNCHANGED <<searchVars, gCall, tokenVars, toolCall, http>>

UpstreamAnswers == {"ok", "fail"}

\* One request at a time, any body.
Next ==
    \/ phase[1] = "idle" /\ \E body \in Bodies : Receive(1, body)
    \/ ProcessEntry(1)
    \/ \E up \in UpstreamAnswers : HandlerSettles(1, up)
    \/ Respond(1)
    \/ Finish(1)

Spec == Init /\ [][Next]_vars

\* Several requests in the handler at once, interleaved entry by entry (the
\* event loop switches requests only at an await, which is one of these
\* interleavings), in the draft part_000.
InitConc == Init /\ variant = "part_000"

NextConc ==
    \E r \in Requests :
        \/ phase[r] = "idle" /\ \E body \in ConcBodies : Receive(r, body)
        \/ ProcessEntry(r)
        \/ \E up \in UpstreamAnswers : HandlerSettles(r, up)
        \/ Respond(r)
        \/ Finish(r)

SpecConc == InitConc /\ [][NextConc]_vars

(***************************************************************************)
(* Graph.search (part_000:120-156).  Between two awaits a caller runs      *)
(* alone: the cache lookup, the in-flight lookup, the start of driveSearch *)
(* and inFlightQueries.set are one step.  driveSearch and g run without    *)
(* touching the two maps; their outcome is drawn when the promise settles. *)
(* The continuations queued on a promise when it settles run one after the *)
(* other, in the order they were registered, before anything else: no call *)
(* of Graph.search and no other settling comes in between.                 *)
(* `lastReturn` holds the return or throw of Graph.search that the last    *)
(* step made, if it made one.                                              *)
(***************************************************************************)
ReturnOf(caller, via) ==
    [q |-> caller.q, top |-> caller.top, via |-> via,
     outcome |-> caller.outcome, value |-> caller.value]

\* Graph.search(q, top) is called and runs up to its return or first await.
SearchCall(c, q, top) ==
    /\ callers[c].pc = "idle"
    /\ \A d \in Callers : callers[d].pc # "resuming"
    /\ LET key == cacheKey(q, top)
           hit == [IdleCaller EXCEPT !.q = q, !.top = top, !.outcome = "returned",
                                     !.value = queryCache[key].results]
       IN  IF cacheLive(queryCache, key, now)
           THEN /\ lastReturn' = ReturnOf(hit, "hit")
                /\ UNCHANGED <<callers, inFlightQueries>>
           ELSE IF key \in DOMAIN inFlightQueries
           THEN /\ callers' = [callers EXCEPT ![c] =
                                 IF inFlightQueries[key].state = "pending"
                                 THEN [IdleCaller EXCEPT !.pc = "joiner", !.q = q, !.top = top,
                                                         !.awaits = inFlightQueries[key].owner]
                                 ELSE [IdleCaller EXCEPT !.pc = "resuming", !.q = q, !.top = top,
                                                         !.awaits = inFlightQueries[key].owner,
                                                         !.joinedSettled = TRUE,
                                                         !.outcome = joinedOutcome(inFlightQueries[key]).outcome,
                                                         !.value = joinedOutcome(inFlightQueries[key]).value]]
                /\ lastReturn' = NoReturn
                /\ UNCHANGED inFlightQueries
           ELSE /\ callers' = [callers EXCEPT ![c] =
                                 [IdleCaller EXCEPT !.pc = "starter", !.q = q, !.top = top]]
                /\ inFlightQueries' = claimSlot(inFlightQueries, key, PendingPromise(c))
                /\ lastReturn' = NoReturn
    /\ UNCHANGED <<now, ticks, queryCache, obtained, mcpVars, gCall, tokenVars, toolCall, http>>

\* The promise of driveSearch settles and the caller that started it goes on:
\* the cache store on success, the finally block in both cases, the return
\* or the throw.  The callers that joined the promise are queued to resume
\* after it.
UpstreamSettles(c, ok, value) ==
    /\ callers[c].pc = "starter"
    /\ \A d \in Callers : callers[d].pc # "resuming"
    /\ LET key == cacheKey(callers[c].q, callers[c].top)
           settled == SettledPromise(c, ok, value)
           finished == [callers[c] EXCEPT !.outcome = IF ok THEN "returned" ELSE "threw",
                                          !.value = value]
       IN  /\ queryCache' =
                 IF ok
                 THEN MapSet(queryCache, key,
                             [results |-> valueOrEmpty(value), timestamp |-> now])
                 ELSE queryCache
           /\ inFlightQueries' = releaseSlot(settleIn(inFlightQueries, settled), key, ok)
           /\ callers' =
                 [d \in Callers |->
                    IF d = c
                    THEN IdleCaller
                    ELSE IF callers[d].pc = "joiner" /\ callers[d].awaits = c
                    THEN [callers[d] EXCEPT !.pc = "resuming",
                                            !.outcome = joinedOutcome(settled).outcome,
                                            !.value = joinedOutcome(settled).value]
                    ELSE callers[d]]
           /\ lastReturn' = ReturnOf(finished, "start")
           /\ obtained' =
                 IF ok
                 THEN [obtained EXCEPT ![<<normalizedQuery(callers[c].q), callers[c].top>>] =
                         [present |-> TRUE, q |-> callers[c].q, value |-> value, at |-> now]]
                 ELSE obtained
    /\ UNCHANGED <<now, ticks, mcpVars, gCall, tokenVars, toolCall, http>>

\* A caller that joined an in-flight search resumes and returns or throws.
JoinerResumes(c) ==
    /\ callers[c].pc = "resuming"
    /\ callers' = [callers EXCEPT ![c] = IdleCaller]
    /\ lastReturn' = ReturnOf(callers[c],
                           IF callers[c].joinedSettled THEN "join settled" ELSE "join")
    /\ UNCHANGED <<now, ticks, queryCache, inFlightQueries, obtained, mcpVars, gCall, tokenVars, toolCall, http>>

\* Date.now() moves on.
Tick(d, max) ==
    /\ ticks < max
    /\ ticks' = ticks + 1
    /\ now' = now + d
    /\ lastReturn' = NoReturn
    /\ UNCHANGED <<queryCache, inFlightQueries, callers, obtained, mcpVars, gCall, tokenVars, toolCall, http>>

UpstreamErrors == {<<"Graph 500">>}

InitSearch == Init /\ variant = "part_000"

\* Any number of callers up to NumCallers, while cache entries expire.
\* The invocations are numbered as they begin: a call takes the lowest free
\* number.  The clock is moved on only while some entry is live: a step of
\* the clock that expires nothing changes no comparison the code makes.
NextSearch ==
    \/ \E c \in Callers, q \in Queries, top \in Tops :
          /\ \A d \in Callers : d < c => callers[d].pc # "idle"
          /\ SearchCall(c, q, top)
    \/ \E c \in Callers, value \in ItemSequences : UpstreamSettles(c, TRUE, value)
    \/ \E c \in Callers, value \in UpstreamErrors : UpstreamSettles(c, FALSE, value)
    \/ \E c \in Callers : JoinerResumes(c)
    \/ /\ \E key \in DOMAIN queryCache : cacheLive(queryCache, key, now)
       /\ Tick(CACHE_TTL, MaxExpiries)

SpecSearch == InitSearch /\ [][NextSearch]_vars

\* Fewer callers, with the clock moving around the age CACHE_TTL.
NextTtl ==
    \/ \E c \in TtlCallers, q \in Queries, top \in Tops : SearchCall(c, q, top)
    \/ \E c \in TtlCallers, value \in ItemSequences : UpstreamSettles(c, TRUE, value)
    \/ \E c \in TtlCallers, value \in UpstreamErrors : UpstreamSettles(c, FALSE, value)
    \/ \E c \in TtlCallers : JoinerResumes(c)
    \/ \E d \in ClockSteps : Tick(d, MaxTicks)

SpecTtl == InitSearch /\ [][NextTtl]_vars

(***************************************************************************)
(* One call of g (part_000:70-113).                                        *)
(***************************************************************************)
\* g(path, init) is called: const token = await getGraphToken()
Call ==
    /\ gCall.pc = "idle"
    /\ gCall' = [IdleCall EXCEPT !.pc = "token"]
    /\ UNCHANGED <<mcpVars, searchVars, tokenVars, toolCall, http>>

\* fetch(url, ...) of the attempt the loop is at, or the throw after the loop.
enterLoop(call, attempt) ==
    IF attempt <= retries
    THEN [call EXCEPT !.pc = "fetching", !.attempt = attempt, !.issued = @ + 1]
    ELSE [call EXCEPT !.pc = "threw", !.attempt = attempt, !.error = exhaustedError]

\* getGraphToken returns a token that has `left` ms before its expiry; the
\* token is kept in the local of line 71 and the loop starts with
\* attempt = 0.
TokenArrives(left) ==
    /\ gCall.pc = "token"
    /\ gCall' = enterLoop([gCall EXCEPT !.tokenLeft = left], 0)
    /\ UNCHANGED <<mcpVars, searchVars, tokenVars, toolCall, http>>

\* The loop starts although the token exchange failed.
TokenFailsAndGoesOn(resp) ==
    /\ gCall.pc = "token"
    /\ ~respOk(resp)
    /\ gCall' = enterLoop([gCall EXCEPT !.tokenResp = resp, !.error = tokenError(resp)], 0)
    /\ UNCHANGED <<mcpVars, searchVars, tokenVars, toolCall, http>>

\* The token exchange is answered with a status that is not ok:
\* getGraphToken throws at line 62 and the rejection leaves g at line 71.
TokenFails(resp) ==
    /\ gCall.pc = "token"
    /\ ~respOk(resp)
    /\ gCall' = [gCall EXCEPT !.pc = "threw", !.tokenResp = resp,
                                !.error = tokenError(resp)]
    /\ UNCHANGED <<mcpVars, searchVars, tokenVars, toolCall, http>>

\* A 401 of the resource empties the credential slot before it is thrown.
ResponseInvalidates(resp, jitter) ==
    /\ gCall.pc = "fetching"
    /\ gCall' = IF respOk(resp)
                THEN [gCall EXCEPT !.pc = "returned", !.resp = resp]
                ELSE [gCall EXCEPT !.pc = "threw", !.resp = resp, !.error = errorOf(resp)]
    /\ cachedToken' = IF resp.status = 401 THEN NoToken ELSE cachedToken
    /\ UNCHANGED <<mcpVars, searchVars, tokenCalls, tokenLog, toolCall, http>>

\* The response arrives and the loop body runs up to its return, its throw
\* or its setTimeout.
Response(resp, jitter) ==
    /\ gCall.pc = "fetching"
    /\ LET seen == [gCall EXCEPT !.resp = resp,
                                 !.only429 = @ /\ resp.status = 429]
       IN  gCall' =
             IF respOk(resp)
             THEN [seen EXCEPT !.pc = "returned"]
             ELSE IF retries429(resp, gCall.attempt)
             THEN [seen EXCEPT !.pc = "sleeping",
                               !.delay = retryAfterDelay(resp.retryAfter, gCall.attempt, jitter)]
             ELSE IF retries5xx(resp, gCall.attempt)
             THEN [seen EXCEPT !.pc = "sleeping",
                               !.delay = backoff(gCall.attempt, jitter)]
             ELSE [seen EXCEPT !.pc = "threw", !.error = errorOf(resp)]
    /\ UNCHANGED <<mcpVars, searchVars, tokenVars, toolCall, http>>

\* fetch rejects (no response at all) and the rejection leaves g.
FetchFails ==
    /\ gCall.pc = "fetching"
    /\ gCall' = [gCall EXCEPT !.pc = "threw", !.error = fetchError]
    /\ UNCHANGED <<mcpVars, searchVars, tokenVars, toolCall, http>>

\* The timer fires, `late` ms after its delay; continue; attempt++.
Wake(late) ==
    /\ gCall.pc = "sleeping"
    /\ gCall' = enterLoop([gCall EXCEPT !.waited = timerDelay(gCall.delay) + late,
                                        !.slept = @ + timerDelay(gCall.delay)],
                          nextAttempt(gCall.attempt))
    /\ UNCHANGED <<mcpVars, searchVars, tokenVars, toolCall, http>>

\* The caller of g has its response or its error.
CallEnds ==
    /\ gCall.pc \in {"returned", "threw"}
    /\ gCall' = IdleCall
    /\ UNCHANGED <<mcpVars, searchVars, tokenVars, toolCall, http>>

InitCall == Init /\ variant = "part_000"

NextCall ==
    \/ Call
    \/ \E left \in TokenLeft : TokenArrives(left)
    \/ \E resp \in TokenResponses : TokenFails(resp)
    \/ \E resp \in Responses, jitter \in Jitters : Response(resp, jitter)
    \/ FetchFails
    \/ \E late \in TimerLateness : Wake(late)
    \/ CallEnds

SpecCall == InitCall /\ [][NextCall]_vars

\* The event loop delivers every response, rejection and timer.
SpecCallFair == SpecCall /\ WF_vars(NextCall)

(***************************************************************************)
(* Calls of getGraphToken (part_000:45-67).                                *)
(***************************************************************************)
\* getGraphToken() is called: the slot is read at line 47 and either the
\* cached token is returned or the POST of line 56 is made and awaited.
GetGraphToken(c) ==
    /\ tokenCalls[c].pc = "idle"
    /\ tokenLog.calls < MaxTokenCalls
    /\ IF tokenLive(cachedToken, now)
       THEN /\ tokenLog' = [tokenLog EXCEPT
                  !.calls = @ + 1,
                  !.ret = TokenReturn("cache", c, cachedToken, NoTokenResponse, NoError, now)]
            /\ UNCHANGED tokenCalls
       ELSE /\ tokenCalls' = [tokenCalls EXCEPT ![c].pc = "exchanging"]
            /\ tokenLog' = [tokenLog EXCEPT
                  !.calls = @ + 1,
                  !.exchanges = @ + 1,
                  !.peak = LET under == Cardinality({d \in TokenCallers :
                                                       tokenCalls'[d].pc # "idle"})
                           IN  IF under > @ THEN under ELSE @]
    /\ UNCHANGED <<cachedToken, mcpVars, searchVars, gCall, toolCall, http>>

\* The POST is answered: line 62 awaits resp.text() when the status is not
\* ok, line 64 awaits resp.json() when it is.
ExchangeResponds(c, resp) ==
    /\ tokenCalls[c].pc = "exchanging"
    /\ tokenCalls' = [tokenCalls EXCEPT
           ![c] = [pc |-> IF respOk(resp) THEN "parsing" ELSE "failing", resp |-> resp]]
    /\ UNCHANGED <<cachedToken, tokenLog, mcpVars, searchVars, gCall, toolCall, http>>

\* The body of a response that is not ok has been read: line 62 throws.
ExchangeThrows(c) ==
    /\ tokenCalls[c].pc = "failing"
    /\ tokenCalls' = [tokenCalls EXCEPT ![c] = IdleTokenCall]
    /\ tokenLog' = [tokenLog EXCEPT
           !.ret = TokenReturn("error", c, NoToken, tokenCalls[c].resp,
                               tokenError(tokenCalls[c].resp), now)]
    /\ UNCHANGED <<cachedToken, mcpVars, searchVars, gCall, toolCall, http>>

\* The data of a response that is ok have been read: lines 65-66 write the
\* slot and return the token that is in it.
ExchangeStores(c) ==
    /\ tokenCalls[c].pc = "parsing"
    /\ cachedToken' = storeToken(cachedToken, tokenCalls[c].resp, now)
    /\ tokenCalls' = [tokenCalls EXCEPT ![c] = IdleTokenCall]
    /\ tokenLog' = [tokenLog EXCEPT
           !.stores = @ + 1,
           !.completed = [resp |-> tokenCalls[c].resp, at |-> now],
           !.ret = TokenReturn("exchange", c, cachedToken', tokenCalls[c].resp, NoError, now)]
    /\ UNCHANGED <<mcpVars, searchVars, gCall, toolCall, http>>

NextToken ==
    \/ \E c \in TokenCallers : GetGraphToken(c)
    \/ \E c \in TokenCallers, resp \in TokenResponses : ExchangeResponds(c, resp)
    \/ \E c \in TokenCallers : ExchangeThrows(c)
    \/ \E c \in TokenCallers : ExchangeStores(c)
    \/ \E d \in TokenClockSteps : Tick(d, MaxTokenTicks)

SpecToken == InitCall /\ [][NextToken]_vars

\* The resource answers a call of g with 200 or with 401, while calls of
\* getGraphToken run one after the other and the clock moves.
NextCredential ==
    \/ \E c \in TokenCallers :
          /\ \A d \in TokenCallers : tokenCalls[d].pc = "idle"
          /\ GetGraphToken(c)
    \/ \E c \in TokenCallers, resp \in TokenResponses : ExchangeResponds(c, resp)
    \/ \E c \in TokenCallers : ExchangeThrows(c)
    \/ \E c \in TokenCallers : ExchangeStores(c)
    \/ \E d \in TokenClockSteps : Tick(d, MaxTokenTicks)
    \/ Call
    \/ \E left \in TokenLeft : TokenArrives(left)
    \/ \E resp \in {r \in Responses : r.status \in {200, 401} /\ r.retryAfter = NoHeader},
          jitter \in Jitters : Response(resp, jitter)
    \/ CallEnds

SpecCredential == InitCall /\ [][NextCredential]_vars

(***************************************************************************)
(* One call of a tool handler at a time, in each draft.                    *)
(***************************************************************************)
\* fetch keeps what it is asked for in the query cache, under the id.
FetchToolCached(args) ==
    /\ toolCall.pc \in {"idle", "done"}
    /\ toolCall' = [IdleTool EXCEPT !.tool = "fetch", !.ids = <<args.id>>, !.pc = "meta",
                                    !.at = 1, !.read = <<args.id>>]
    /\ queryCache' = MapSet(queryCache, <<"item:", args.id>>,
                            [results |-> <<>>, timestamp |-> now])
    /\ UNCHANGED <<now, ticks, inFlightQueries, callers, obtained, lastReturn>>
    /\ UNCHANGED <<mcpVars, gCall, tokenVars, http>>

\* fetch is called: the ids to work on are settled and Graph.getItemById is
\* awaited for the first, or the handler returns for want of an id.
FetchTool(args) ==
    /\ toolCall.pc \in {"idle", "done"}
    /\ LET ids == targetIds(variant, args)
           start == [IdleTool EXCEPT !.tool = "fetch", !.ids = ids]
       IN  toolCall' =
             IF ids = <<>>
             THEN [start EXCEPT !.pc = "done", !.outcome = "returned",
                                !.content = <<[type |-> IF variant = "part_000"
                                                        THEN "object" ELSE "text",
                                               says |-> "No id provided", at |-> 0]>>]
             ELSE [start EXCEPT !.pc = "meta", !.at = 1, !.read = <<ids[1]>>]
    /\ UNCHANGED <<mcpVars, searchVars, gCall, tokenVars, http>>

\* Graph.getItemById settles: rejected, or resolved with meta.  An item that
\* is a file is described (part_000), downloaded when it is text under 1 MB,
\* or answered with a link.
GetItemByIdSettles(ok, meta) ==
    /\ toolCall.pc = "meta"
    /\ ok \/ ~meta.file
    /\ LET seen == [toolCall EXCEPT
                       !.metas = Append(@, meta),
                       !.failed = IF ok THEN @ ELSE @ \cup {toolCall.at}]
       IN  toolCall' =
             IF ~ok THEN caught(variant, seen)
             ELSE IF ~meta.file THEN notAFile(variant, seen)
             ELSE IF variant = "part_000"
             THEN afterItem(seen, <<[type |-> "object", says |-> "metadata",
                                     at |-> toolCall.at]>>)
             ELSE IF isText(meta.mime) /\ under1MB(meta.size)
             THEN [seen EXCEPT !.pc = "download",
                               !.downloaded = Append(@, toolCall.ids[toolCall.at])]
             ELSE afterItem(seen, <<[type |-> "text", says |-> "Large/binary file",
                                     at |-> toolCall.at],
                                    [type |-> "resource_link", says |-> "link",
                                     at |-> toolCall.at]>>)
    /\ UNCHANGED <<mcpVars, searchVars, gCall, tokenVars, http>>

\* Graph.downloadById and resp.text() settle: the header and the text are
\* pushed, and in part_003 a resource with the text.
DownloadByIdSettles(ok) ==
    /\ toolCall.pc = "download"
    /\ toolCall' =
         IF ~ok THEN caught(variant, [toolCall EXCEPT !.failed = @ \cup {toolCall.at}])
         ELSE afterItem(toolCall,
                <<[type |-> "text", says |-> "header", at |-> toolCall.at],
                  [type |-> "text", says |-> "content", at |-> toolCall.at]>>
                \o (IF variant = "part_003"
                    THEN <<[type |-> "resource", says |-> "content", at |-> toolCall.at]>>
                    ELSE <<>>))
    /\ UNCHANGED <<mcpVars, searchVars, gCall, tokenVars, http>>

\* search is called with the text `query`: part_000 returns [] when !query,
\* which holds of the empty string alone; otherwise Graph.search is awaited.
SearchTool(query) ==
    /\ toolCall.pc \in {"idle", "done"}
    /\ toolCall' =
         IF variant = "part_000" /\ query = <<>>
         THEN [IdleTool EXCEPT !.tool = "search", !.query = query, !.pc = "done",
                               !.outcome = "returned"]
         ELSE [IdleTool EXCEPT !.tool = "search", !.query = query, !.pc = "search"]
    /\ UNCHANGED <<mcpVars, searchVars, gCall, tokenVars, http>>

\* Graph.search settles: resolved with `items`, or rejected with an error of
\* that message.  part_000 returns one record per item, with its preview
\* text; part_003 and server.ts return one text part, `Found n item(s).`
GraphSearchSettles(ok, message, items) ==
    /\ toolCall.pc = "search"
    /\ LET kind == IF variant = "part_000" THEN "object" ELSE "text"
           throttled == \E i \in 1..Len(message) : message[i] \in {"429", "throttled"}
           says == IF ok THEN "Found"
                   ELSE IF variant # "part_000" THEN "Search failed"
                   ELSE IF throttled THEN "error-throttled" ELSE "error-general"
           here == [toolCall EXCEPT !.failed = IF ok THEN {} ELSE {0}]
       IN  toolCall' =
             IF ~ok /\ variant = "server_ts"
             THEN [here EXCEPT !.pc = "done", !.outcome = "threw"]
             ELSE IF ok /\ variant = "part_000"
             THEN [here EXCEPT !.pc = "done", !.outcome = "returned",
                               !.content = [i \in 1..Len(items) |->
                                              [type |-> kind, says |-> "result", at |-> 0,
                                               text |-> previewText(items[i])]]]
             ELSE [here EXCEPT !.pc = "done", !.outcome = "returned",
                               !.content = <<[type |-> kind, says |-> says, at |-> 0]>>]
    /\ UNCHANGED <<mcpVars, searchVars, gCall, tokenVars, http>>

NextTool ==
    \/ \E args \in FetchArgs : FetchTool(args)
    \/ \E ok \in BOOLEAN, meta \in Metas : GetItemByIdSettles(ok, meta)
    \/ \E ok \in BOOLEAN : DownloadByIdSettles(ok)
    \/ \E query \in Queries \cup {<<>>, <<" ", " ">>} : SearchTool(query)
    \/ LET chars(ch, n) == [i \in 1..n |-> ch]
           found == [name : {chars("n", 8), chars("n", 255)},
                     webUrl : {<<>>, chars("u", 60), chars("u", 220), chars("u", 300)}]
       IN  \E ok \in BOOLEAN, message \in SearchErrors,
              items \in {<<>>} \cup {<<x>> : x \in found}
                              \cup {<<x, y>> : x \in found, y \in {[name |-> chars("n", 8),
                                                                     webUrl |-> <<>>]}} :
                GraphSearchSettles(ok, message, items)

SpecTool == Init /\ [][NextTool]_vars

\* Calls of mcpTools.fetch of part_000, one at a time, while callers of
\* Graph.search come and go.
NextFetch ==
    \/ \E args \in FetchArgs : FetchTool(args)
    \/ \E ok \in BOOLEAN, meta \in Metas : GetItemByIdSettles(ok, meta)
    \/ \E c \in TtlCallers, q \in Queries, top \in Tops : SearchCall(c, q, top)
    \/ \E c \in TtlCallers, value \in ItemSequences : UpstreamSettles(c, TRUE, value)
    \/ \E c \in TtlCallers, value \in UpstreamErrors : UpstreamSettles(c, FALSE, value)
    \/ \E c \in TtlCallers : JoinerResumes(c)

SpecFetch == InitSearch /\ [][NextFetch]_vars

(***************************************************************************)
(* One HTTP request at a time on the routes that lead to the repository.   *)
(***************************************************************************)
\* A request arrives on `route` with the Authorization header
\* `authorization`: Express answers 404 for a route the draft does not
\* register, the auth middleware runs where the route was registered with
\* it, and the handler runs up to its response or its first upstream call.
HttpRequest(route, authorization, request, arg) ==
    /\ http.pc \in {"idle", "sent"}
    /\ route = "POST /mcp/sse" => Len(http.served) < MaxServed
    /\ LET rpc == route \in {"POST /mcp", "POST /mcp/sse"}
           start == [IdleHttp EXCEPT !.route = route, !.authorization = authorization,
                                     !.request = IF rpc THEN request ELSE <<>>,
                                     !.arg = arg, !.served = http.served]
           answer(status, reply) == [start EXCEPT !.pc = "sent", !.status = status,
                                                  !.reply = reply]
           await(call) == [start EXCEPT !.pc = "upstream", !.awaits = call]
           viaTool(name) == IF name = "search" THEN "Graph.search" ELSE "Graph.getItemById"
           mcp == Dispatch(variant, TRUE, request)
           sse == SseDispatch(request, arg)
       IN  http' =
             IF registration(variant, route) = "absent"
             THEN answer(404, ErrorEnvelope(0, <<"Cannot ", route>>, NoId))
             ELSE IF registration(variant, route) = "auth" /\ auth(variant, authorization) # "next"
             THEN answer(401, ErrorEnvelope(0, <<"Unauthorized">>, NoId))
             ELSE IF route = "POST /mcp"
             THEN IF mcp.kind = "throw"
                  THEN answer(500, ErrorEnvelope(-32603, <<mcp.message>>, NullId))
                  ELSE IF mcp.kind = "push" THEN answer(200, mcp.envelope)
                  ELSE IF mcp.handler = "fetch" \/ (mcp.handler = "search" /\ variant # "part_000")
                  THEN await(viaTool(mcp.handler))
                  ELSE answer(200, AfterHandler(HandlerSettle(variant, mcp.handler, "ok"),
                                                mcp.handler, request).envelope)
             ELSE IF route = "POST /mcp/sse"
             THEN IF sse.kind = "await" THEN await(viaTool(sse.handler))
                  ELSE IF sse.kind = "no content" THEN answer(204, sse.envelope)
                  ELSE [answer(200, sse.envelope) EXCEPT
                           !.served = IF sse.envelope.kind = "result"
                                      THEN Append(@, request.method) ELSE @]
             ELSE IF route = "POST /tools/search"
             THEN IF arg = ""
                  THEN answer(200, ResultEnvelope(ToolResult("search", "no results"), NoId))
                  ELSE await("Graph.search")
             ELSE IF route = "POST /tools/fetch" /\ arg = ""
             THEN answer(400, ErrorEnvelope(0, <<"Missing file ID">>, NoId))
             ELSE await("Graph.getItemById")
    /\ UNCHANGED <<mcpVars, searchVars, gCall, tokenVars, toolCall>>

\* The awaited upstream call settles.  The tools of POST /mcp and POST
\* /mcp/sse turn it into their result; POST /tools/search answers with the
\* results or with 500; POST /tools/fetch and GET /download/:id answer 400
\* for an item that is not a file, go on to Graph.downloadById for a file,
\* and answer with the content or with 500.
HttpUpstreamSettles(ok, isFile) ==
    /\ http.pc = "upstream"
    /\ LET answer(status, reply) == [http EXCEPT !.pc = "sent", !.awaits = "",
                                                 !.status = status, !.reply = reply]
           name == http.request.params.name
           up == IF ok THEN "ok" ELSE "fail"
       IN  http' =
             IF http.route = "POST /mcp"
             THEN answer(200, AfterHandler(HandlerSettle(variant, name, up), name,
                                           http.request).envelope)
             ELSE IF http.route = "POST /mcp/sse"
             THEN [answer(200, ResultEnvelope(
                                  ToolResult(name, IF name = "fetch" THEN "text"
                                                   ELSE IF ok THEN "Found results"
                                                   ELSE "Found 1 results"),
                                  http.request.id))
                     EXCEPT !.served = Append(@, "tools/call")]
             ELSE IF ~ok
             THEN answer(500, ErrorEnvelope(0, <<"Graph 500">>, NoId))
             ELSE IF http.route = "POST /tools/search"
             THEN answer(200, ResultEnvelope(ToolResult("search", "results"), NoId))
             ELSE IF http.awaits = "Graph.getItemById" /\ ~isFile
             THEN answer(400, ErrorEnvelope(0, <<"Not a file">>, NoId))
             ELSE IF http.awaits = "Graph.getItemById"
             THEN [http EXCEPT !.awaits = "Graph.downloadById"]
             ELSE answer(200, ResultEnvelope(ToolResult("fetch", "content"), NoId))
    /\ UNCHANGED <<mcpVars, searchVars, gCall, tokenVars, toolCall>>

NextRoutes ==
    \/ \E route \in {"POST /mcp", "POST /mcp/sse"},
          authorization \in {<<>>, <<"Basic ", "MCP_API_KEY">>, <<"Bearer ", "MCP_API_KEY">>,
                             <<"Bearer ", "jwt-valid">>, <<"Bearer ", "jwt-forged">>},
          request \in {[e EXCEPT !.id = "1"] :
                         e \in ObjectEntries \cup
                               {ObjectEntry("notifications/initialized", NoParams)}},
          arg \in {"", "item-a"} :
             /\ arg # "" => request.method = "tools/call"
             /\ HttpRequest(route, authorization, request, arg)
    \/ \E route \in {"POST /tools/search", "POST /tools/fetch", "GET /download/:id"},
          authorization \in {<<>>, <<"Basic ", "MCP_API_KEY">>, <<"Bearer ", "MCP_API_KEY">>,
                             <<"Bearer ", "jwt-valid">>, <<"Bearer ", "jwt-forged">>},
          arg \in {"", "item-a"} :
             /\ route = "GET /download/:id" => arg # ""
             /\ HttpRequest(route, authorization, NullEntry, arg)
    \/ \E ok \in BOOLEAN, isFile \in BOOLEAN : HttpUpstreamSettles(ok, isFile)

SpecRoutes == Init /\ [][NextRoutes]_vars

(***************************************************************************)
(* Vocabulary of the properties.                                           *)
(***************************************************************************)
\* The entries of request r that have been processed to the end: entry i has
\* its envelope at responses[r][i].
Answered(r) == 1..Len(responses[r])

InitializeBefore(r, i) == \E j \in 1..(i - 1) : requests[r][j].method = "initialize"

NotInitializedError(id) == ErrorEnvelope(-32600, <<"Not initialized">>, id)

AlreadyInitializedError(id) == ErrorEnvelope(-32600, <<"Already initialized">>, id)

KnownMethods == {"initialize", "tools/list", "tools/call"}

(***************************************************************************)
(* C1.  In the handler's responses, a tools/list or tools/call entry that  *)
(* no initialize entry of its batch precedes is answered with error -32600 *)
(* "Not initialized" and no handler is invoked for it; one that follows an *)
(* initialize is served (tools/list with the catalogue, tools/call by the  *)
(* tool lookup); and a batch that is answered is answered with exactly     *)
(* these envelopes.                                                        *)
(***************************************************************************)
C1_InitializeGatesTools ==
    \A r \in Requests :
        /\ \A i \in Answered(r) :
              LET request == requests[r][i]
              IN  request.method \in {"tools/list", "tools/call"} =>
                     IF InitializeBefore(r, i)
                     THEN /\ responses[r][i] # NotInitializedError(request.id)
                          /\ request.method = "tools/list" =>
                                responses[r][i] = ResultEnvelope(ToolsListResult, request.id)
                     ELSE /\ responses[r][i] = NotInitializedError(request.id)
                          /\ i \notin Invoked(r)
        /\ (phase[r] = "sent" /\ httpStatus[r] = 200 /\ bodyIsArray[r]) =>
              wire[r] = responses[r]

\* The batch [tools/call, initialize] was answered [error -32600, result].
C1_Witness ==
    \E r \in Requests :
        /\ phase[r] = "sent"
        /\ wireIsArray[r]
        /\ Len(requests[r]) = 2
        /\ requests[r][1].method = "tools/call"
        /\ requests[r][2].method = "initialize"
        /\ wire[r] = <<NotInitializedError("1"),
                       ResultEnvelope(InitializeResult(wire[r][2].result.protocolVersion), "2")>>

(***************************************************************************)
(* C2.  The response mirrors the body: an array of n entries is answered   *)
(* with an array of n envelopes, the i-th with the id of the i-th entry,   *)
(* and one object with one envelope.                                       *)
(***************************************************************************)
C2_ResponseMirrorsBody ==
    \A r \in Requests :
        phase[r] = "sent" =>
            /\ wireIsArray[r] = bodyIsArray[r]
            /\ Len(wire[r]) = Len(requests[r])
            /\ \A i \in 1..Len(wire[r]) : wire[r][i].id = requests[r][i].id

(***************************************************************************)
(* C3.  Within a batch the session is initialized exactly from its first   *)
(* initialize entry on: that entry is the only one answered with an        *)
(* initialize result, and every later initialize entry is answered with    *)
(* error -32600 "Already initialized".                                     *)
(***************************************************************************)
C3_InitializeOnce ==
    \A r \in Requests :
        LET inits == {i \in Answered(r) : requests[r][i].method = "initialize"}
        IN  /\ initialized[r] = (inits # {})
            /\ \A i \in inits :
                  IF \A j \in inits : i <= j
                  THEN /\ responses[r][i].kind = "result"
                       /\ responses[r][i].result.type = "initialize"
                  ELSE responses[r][i] = AlreadyInitializedError(requests[r][i].id)
            /\ Cardinality({i \in Answered(r) :
                              responses[r][i].result.type = "initialize"}) <= 1

\* A second initialize of a batch was refused and the session stayed initialized.
C3_Witness ==
    \E r \in Requests :
        /\ Len(responses[r]) >= 2
        /\ responses[r][1].result.type = "initialize"
        /\ requests[r][2].method = "initialize"
        /\ responses[r][2] = AlreadyInitializedError("2")
        /\ initialized[r]

(***************************************************************************)
(* C4.  In an initialized batch, tools/call with a name other than search  *)
(* and fetch is answered with error -32601 "Tool not found: <name>" and no *)
(* handler is executed.                                                    *)
(***************************************************************************)
C4_UnknownToolNotFound ==
    \A r \in Requests : \A i \in Answered(r) :
        LET request == requests[r][i]
        IN  (/\ request.method = "tools/call"
             /\ InitializeBefore(r, i)
             /\ request.params.present
             /\ request.params.name \notin {"search", "fetch"}) =>
                /\ responses[r][i] =
                      ErrorEnvelope(-32601, <<"Tool not found: ", request.params.name>>,
                                    request.id)
                /\ i \notin Invoked(r)

(***************************************************************************)
(* C5.  A step that processes an entry (an object or a primitive value)    *)
(* whose method is none of initialize, tools/list, tools/call appends      *)
(* error -32601 "Method not found: <method>" for it and goes on to the     *)
(* next entry, with the session state as it was, initialized or not.       *)
(***************************************************************************)
C5_MethodNotFound ==
    [][\A r \in Requests :
          (/\ phase[r] = "running"
           /\ pos[r] <= Len(requests[r])
           /\ requests[r][pos[r]].shape # "null"
           /\ requests[r][pos[r]].method \notin KnownMethods
           /\ <<phase[r], pos[r], responses[r], initialized[r]>>' #
                 <<phase[r], pos[r], responses[r], initialized[r]>>) =>
              /\ responses'[r] =
                    Append(responses[r],
                           ErrorEnvelope(-32601,
                                         <<"Method not found: ",
                                           Render(requests[r][pos[r]].method)>>,
                                         requests[r][pos[r]].id))
              /\ initialized'[r] = initialized[r]
              /\ pos'[r] = pos[r] + 1
              /\ phase'[r] = "running"]_vars

\* An entry without a method was refused before initialize and an unknown
\* method after it.
C5_Witness ==
    \E r \in Requests :
        /\ Len(responses[r]) = 3
        /\ responses[r][1] = ErrorEnvelope(-32601, <<"Method not found: ", "undefined">>, "1")
        /\ responses[r][2].result.type = "initialize"
        /\ responses[r][3] = ErrorEnvelope(-32601, <<"Method not found: ", "ping">>, "3")
        /\ initialized[r]

(***************************************************************************)
(* C6.  When a handler called by tools/call throws, the entry is answered  *)
(* with error -32603 and the exception's message, and the loop goes on:    *)
(* the request never ends at that entry, and every entry between it and    *)
(* the place the loop has reached has its envelope.                        *)
(***************************************************************************)
C6_HandlerErrorCaught ==
    \A r \in Requests : \A c \in calls[r] :
        c.outcome = "threw" =>
            /\ c.idx \in Answered(r)
            /\ responses[r][c.idx] =
                  ErrorEnvelope(-32603, <<c.message>>, requests[r][c.idx].id)
            /\ pos[r] > c.idx
            /\ \A j \in (c.idx + 1)..(pos[r] - 1) : j \in Answered(r)
            /\ (phase[r] = "sent" /\ httpStatus[r] = 200 /\ bodyIsArray[r]) =>
                  /\ Len(wire[r]) = Len(requests[r])
                  /\ wire[r][c.idx] = responses[r][c.idx]

\* A handler threw at the second entry and the third entry was answered too.
C6_Witness ==
    \E r \in Requests : \E c \in calls[r] :
        /\ c.outcome = "threw"
        /\ c.idx = 2
        /\ phase[r] = "sent"
        /\ httpStatus[r] = 200
        /\ Len(wire[r]) = 3
        /\ wire[r][2] = ErrorEnvelope(-32603, <<"Graph 500">>, "2")
        /\ wire[r][3].id = "3"

(***************************************************************************)
(* C7.  A malformed entry (null, a non-object, a tools/call without        *)
(* params) gets an error envelope of its own and every other entry of the  *)
(* batch still gets its envelope.                                          *)
(***************************************************************************)
C7_MalformedEntryIsolated ==
    \A r \in Requests :
        phase[r] = "sent" =>
            \A i \in 1..Len(requests[r]) :
                /\ i <= Len(wire[r])
                /\ wire[r][i].id = requests[r][i].id
                /\ (\/ requests[r][i].shape # "object"
                    \/ /\ requests[r][i].method = "tools/call"
                       /\ ~requests[r][i].params.present) =>
                      wire[r][i].kind = "error"

(***************************************************************************)
(* C8.  Every request that reaches the handler is answered with HTTP 200   *)
(* and never with the request-level envelope whose id is null.             *)
(***************************************************************************)
C8_AlwaysHttp200 ==
    \A r \in Requests :
        phase[r] = "sent" =>
            /\ httpStatus[r] = 200
            /\ \A i \in 1..Len(wire[r]) : wire[r][i].id # NullId

(***************************************************************************)
(* C9.  The protocolVersion of an initialize result is the requested       *)
(* version when that is one of 2024-11-05, 2025-03-26, 2025-06-18, and     *)
(* 2025-06-18 otherwise.                                                   *)
(***************************************************************************)
C9_VersionNegotiated ==
    \A r \in Requests : \A i \in Answered(r) :
        responses[r][i].result.type = "initialize" =>
            LET requested == requests[r][i].params.protocolVersion
                answered == responses[r][i].result.protocolVersion
            IN  /\ answered \in {"2024-11-05", "2025-03-26", "2025-06-18"}
                /\ answered = IF requested \in {"2024-11-05", "2025-03-26", "2025-06-18"}
                              THEN requested
                              ELSE "2025-06-18"

(***************************************************************************)
(* C10.  The session belongs to one request: a request starts              *)
(* uninitialized, it is initialized only by an initialize entry of its own *)
(* body, and without one its tools/call entries are refused, whatever the  *)
(* other requests in the handler have done.                                *)
(***************************************************************************)
C10_SessionPerRequest ==
    \A r \in Requests :
        /\ (phase[r] \in {"idle", "running"} /\ pos[r] = 1) => ~initialized[r]
        /\ initialized[r] => \E i \in Answered(r) : requests[r][i].method = "initialize"
        /\ \A i \in Answered(r) :
              (requests[r][i].method = "tools/call" /\ ~InitializeBefore(r, i)) =>
                  responses[r][i] = NotInitializedError(requests[r][i].id)

\* One request is initialized and suspended at its await while another
\* request, received meanwhile, has had its tools/call refused.
C10_Witness ==
    \E r \in Requests : \E q \in Requests \ {r} :
        /\ initialized[r]
        /\ phase[r] = "awaiting"
        /\ phase[q] = "running"
        /\ ~initialized[q]
        /\ Len(responses[q]) = 1
        /\ requests[q][1].method = "tools/call"
        /\ responses[q][1] = NotInitializedError("1")

(***************************************************************************)
(* Vocabulary of the properties of Graph.search.                           *)
(***************************************************************************)
\* The text and limit the call of caller c is about.
SearchKeyOf(c) == <<normalizedQuery(callers[c].q), callers[c].top>>

\* The callers whose upstream search for the text and limit k is running.
ActiveUpstream(k) == {c \in Callers : callers[c].pc = "starter" /\ SearchKeyOf(c) = k}

\* The callers suspended on the in-flight search for the text and limit k.
Joiners(k) == {c \in Callers : callers[c].pc = "joiner" /\ SearchKeyOf(c) = k}

(***************************************************************************)
(* C11.  Under every interleaving of the callers of Graph.search, at most  *)
(* one upstream search per cache key is running at any instant: the caller *)
(* that started it has its promise in the in-flight map from the step in   *)
(* which it suspended, and a caller suspended on an in-flight entry awaits *)
(* the running search of the same key and started none of its own.         *)
(***************************************************************************)
C11_OneUpstreamPerKey ==
    /\ \A k \in SearchKeys : Cardinality(ActiveUpstream(k)) <= 1
    /\ \A c \in Callers :
          callers[c].pc = "starter" =>
             LET key == cacheKey(callers[c].q, callers[c].top)
             IN  key \in DOMAIN inFlightQueries /\ inFlightQueries[key] = PendingPromise(c)
    /\ \A c \in Callers :
          callers[c].pc = "joiner" =>
             /\ callers[c].awaits \in ActiveUpstream(SearchKeyOf(c))
             /\ c \notin ActiveUpstream(SearchKeyOf(c))

\* Two callers wait on the search a third one started, while a search for
\* another key is not running.
C11_Witness ==
    \E k \in SearchKeys :
        /\ Cardinality(ActiveUpstream(k)) = 1
        /\ Cardinality(Joiners(k)) = 2

(***************************************************************************)
(* C12.  The callers that joined an in-flight search get the outcome of    *)
(* the caller that started it: when the starter has returned or thrown,    *)
(* every joiner still queued to resume, and every joiner that has resumed  *)
(* since, returns the same result or throws the same error.                *)
(***************************************************************************)
C12_JoinersShareOutcome ==
    lastReturn.via \in {"start", "join"} =>
        \A d \in Callers :
            callers[d].pc = "resuming" =>
                /\ SearchKeyOf(d) = <<normalizedQuery(lastReturn.q), lastReturn.top>>
                /\ callers[d].outcome = lastReturn.outcome
                /\ callers[d].value = lastReturn.value

\* The search failed, one joiner has thrown the starter's error and another
\* is about to.
C12_Witness ==
    /\ lastReturn.via = "join"
    /\ lastReturn.outcome = "threw"
    /\ \E d \in Callers : callers[d].pc = "resuming"

(***************************************************************************)
(* C13.  When the search registered as in-flight for a key settles, with   *)
(* success or failure and whatever the number of waiting callers, its      *)
(* entry leaves the in-flight map: the map holds only promises that are    *)
(* still pending, each owned by the caller running the search of that key. *)
(* A failure stores nothing: every cache entry is the result and time of   *)
(* the last successful upstream search for its text and limit.  No caller  *)
(* ever joins a promise that has already settled, so a search issued after *)
(* a failure starts a fresh upstream search.                               *)
(***************************************************************************)
C13_SettledSlotRemoved ==
    /\ \A key \in DOMAIN inFlightQueries :
          LET p == inFlightQueries[key]
          IN  /\ p.state = "pending"
              /\ callers[p.owner].pc = "starter"
              /\ cacheKey(callers[p.owner].q, callers[p.owner].top) = key
    /\ lastReturn.via = "start" =>
          cacheKey(lastReturn.q, lastReturn.top) \notin DOMAIN inFlightQueries
    /\ \A key \in DOMAIN queryCache :
          \E k \in SearchKeys :
              /\ key = <<"search:", k[1], ":", k[2]>>
              /\ obtained[k].present
              /\ queryCache[key].results = obtained[k].value
              /\ queryCache[key].timestamp = obtained[k].at
    /\ \A c \in Callers : ~callers[c].joinedSettled
    /\ lastReturn.via # "join settled"

\* A search on which two callers were waiting has just failed: its slot is
\* gone and nothing is cached for its key.
C13_Witness ==
    /\ lastReturn.via = "start"
    /\ lastReturn.outcome = "threw"
    /\ Cardinality({d \in Callers : callers[d].pc = "resuming"}) = 2
    /\ cacheKey(lastReturn.q, lastReturn.top) \notin DOMAIN inFlightQueries
    /\ cacheKey(lastReturn.q, lastReturn.top) \notin DOMAIN queryCache

(***************************************************************************)
(* C14.  Once an upstream search for a text and limit has succeeded, a     *)
(* search issued less than CACHE_TTL later whose text has the same trimmed *)
(* lower-case form and whose limit is the same starts no upstream search   *)
(* and joins none; what a search served from the cache returns is the item *)
(* sequence the last successful upstream search for its own text and limit *)
(* delivered, never that of another limit.                                 *)
(***************************************************************************)
C14_CacheServesNormalisedKey ==
    /\ \A c \in Callers :
          callers[c].pc \in {"starter", "joiner"} =>
             ~(/\ obtained[SearchKeyOf(c)].present
               /\ now - obtained[SearchKeyOf(c)].at < CACHE_TTL)
    /\ lastReturn.via = "hit" =>
          LET k == <<normalizedQuery(lastReturn.q), lastReturn.top>>
          IN  /\ obtained[k].present
              /\ lastReturn.outcome = "returned"
              /\ lastReturn.value = obtained[k].value

\* A search typed differently from the one that filled the cache is served
\* from it some time later, while the entry of the other limit holds other
\* items.
C14_Witness ==
    /\ lastReturn.via = "hit"
    /\ LET k == <<normalizedQuery(lastReturn.q), lastReturn.top>>
       IN  /\ obtained[k].present
           /\ obtained[k].q # lastReturn.q
           /\ now > obtained[k].at
           /\ \E k2 \in SearchKeys \ {k} :
                 /\ k2[1] = k[1]
                 /\ obtained[k2].present
                 /\ obtained[k2].value # lastReturn.value

(***************************************************************************)
(* C15.  A search is served from the cache only while the age of the entry *)
(* of its key is strictly less than CACHE_TTL = 300000 ms.                 *)
(***************************************************************************)
C15_ServedOnlyWhileYoung ==
    lastReturn.via = "hit" =>
        LET key == cacheKey(lastReturn.q, lastReturn.top)
        IN  /\ key \in DOMAIN queryCache
            /\ now - queryCache[key].timestamp < 300000
            /\ lastReturn.value = queryCache[key].results

\* The entry of a key is exactly CACHE_TTL old and a search for that key has
\* gone upstream.
C15_Witness ==
    \E c \in Callers :
        LET key == cacheKey(callers[c].q, callers[c].top)
        IN  /\ callers[c].pc = "starter"
            /\ key \in DOMAIN queryCache
            /\ now - queryCache[key].timestamp = 300000

(***************************************************************************)
(* C16.  Whatever the upstream answers, one call of g issues at most       *)
(* retries + 1 = 4 fetches, and a call that has started ends by returning  *)
(* a response or by throwing.                                              *)
(***************************************************************************)
C16_BoundedAttempts ==
    /\ [](gCall.issued <= retries + 1 /\ gCall.issued <= 4)
    /\ (gCall.pc = "token") ~> (gCall.pc \in {"returned", "threw"})

\* The fourth fetch of a call was answered 2xx after three retried answers.
C16_Witness ==
    /\ gCall.pc = "returned"
    /\ gCall.issued = 4

(***************************************************************************)
(* C17.  After a 429 that carries Retry-After: s, with attempts remaining, *)
(* the next fetch is issued no sooner than s * 1000 ms after the response: *)
(* 2000 ms for Retry-After: 2, 120000 ms for Retry-After: 120.             *)
(***************************************************************************)
C17_RetryAfterHonoured ==
    (gCall.pc = "fetching" /\ gCall.issued > 1 /\ gCall.resp.status = 429) =>
        /\ gCall.resp.retryAfter = <<"2">> => gCall.waited >= 2000
        /\ gCall.resp.retryAfter = <<"1", "2", "0">> => gCall.waited >= 120000

\* The fetch after a 429 with Retry-After: 2 goes out 2000 ms later.
C17_Witness ==
    /\ gCall.pc = "fetching"
    /\ gCall.resp.status = 429
    /\ gCall.resp.retryAfter = <<"2">>
    /\ gCall.waited = 2000

(***************************************************************************)
(* C18.  When every attempt is answered 429, the call fails after retries  *)
(* 429 responses, with the retry-exhaustion error.                         *)
(***************************************************************************)
C18_ExhaustionAfterMaxRetries ==
    (/\ gCall.pc = "threw"
     /\ gCall.only429
     /\ gCall.error.kind \notin {"Token error", "fetch failed"}) =>
        /\ gCall.issued = retries
        /\ gCall.error = exhaustedError

(***************************************************************************)
(* C19.  The delay before the retry of a 500-599 response is the one a 429 *)
(* with the same headers would get: Retry-After in seconds when present,   *)
(* otherwise the capped backoff with jitter.                               *)
(***************************************************************************)
C19_ServerErrorDelayAs429 ==
    (/\ gCall.pc = "sleeping"
     /\ gCall.resp.status >= 500
     /\ gCall.resp.status <= 599) =>
        \E jitter \in Jitters :
            gCall.delay = retryAfterDelay(gCall.resp.retryAfter, gCall.attempt, jitter)

(***************************************************************************)
(* C20.  A response that is neither 2xx, 429 nor 500-599 ends the call at  *)
(* once with an error that carries the status and the error body, with no  *)
(* sleep and no further fetch (one fetch in all when it answers the first  *)
(* attempt); a 2xx response ends it at once with a return.                 *)
(***************************************************************************)
C20_OtherStatusFailsAtOnce ==
    /\ gCall.resp.status \in {401, 404} =>
          /\ gCall.pc = "threw"
          /\ gCall.error.kind = "Graph"
          /\ gCall.error.status = gCall.resp.status
          /\ gCall.error.body =
                (IF gCall.resp.json THEN "the JSON body" ELSE "the body text")
          /\ gCall.issued = gCall.attempt + 1
    /\ (gCall.resp.status >= 200 /\ gCall.resp.status <= 299) =>
          /\ gCall.pc = "returned"
          /\ gCall.issued = gCall.attempt + 1

\* C21: every sleep between two attempts of g lasts at most 30000 ms, and
\* the delay before retry number k that follows a response without a
\* Retry-After header lies between min(2^k * 1000, 30000) and
\* min(2^k * 1000 + 1000, 30000) ms.
C21_SleepAtMostThirtySeconds ==
    gCall.pc = "sleeping" =>
        /\ timerDelay(gCall.delay) <= 30000
        /\ gCall.resp.retryAfter = NoHeader =>
              /\ ~gCall.delay.nan
              /\ gCall.delay.n >= Min(2 ^ gCall.attempt * 1000, 30000)
              /\ gCall.delay.n <= Min(2 ^ gCall.attempt * 1000 + 1000, 30000)

(***************************************************************************)
(* The credential cache.                                                   *)
(***************************************************************************)
\* C22: a call of getGraphToken that starts while the slot holds a token
\* that is more than 60 seconds before its expiry makes no token exchange
\* and returns the token of the slot; so after two calls, the second
\* starting after the first has stored its token and while that token is
\* more than 60 seconds before its expiry, one exchange has been made.
C22_SecondCallUsesSlot ==
    /\ [][(/\ tokenLog'.calls = tokenLog.calls + 1
           /\ cachedToken # NoToken
           /\ cachedToken.exp * 1000 - now > 60000)
          => /\ tokenLog'.exchanges = tokenLog.exchanges
             /\ tokenCalls' = tokenCalls
             /\ tokenLog'.ret.via = "cache"
             /\ tokenLog'.ret.token = cachedToken.token]_vars
    /\ []((/\ tokenLog.calls = 2
           /\ tokenLog.stores = 1
           /\ tokenLog.ret.via = "cache"
           /\ \A c \in TokenCallers : tokenCalls[c].pc = "idle")
          => tokenLog.exchanges = 1)

\* The second of two calls is served from the slot half a second after the
\* first stored a token of 61 seconds.
C22_Witness ==
    /\ tokenLog.calls = 2
    /\ tokenLog.exchanges = 1
    /\ tokenLog.stores = 1
    /\ tokenLog.ret.via = "cache"
    /\ tokenLog.ret.at > tokenLog.completed.at
    /\ tokenLog.ret.exp * 1000 - tokenLog.ret.at <= 61000

\* C23: every token that getGraphToken returns has its expiry more than 60
\* seconds after the time of the return, whatever lifetime the token
\* response reported.
C23_ReturnedTokenHasSixtySeconds ==
    tokenLog.ret.via \in {"cache", "exchange"} =>
        tokenLog.ret.exp * 1000 - tokenLog.ret.at > 60000

\* C24: when the token exchange is answered with a status that is not ok,
\* the call of g fails with the error of getGraphToken, which carries the
\* status and the body of that answer; that first answer ends the call: no
\* further exchange and no fetch of the resource is made.
C24_TokenErrorEndsCall ==
    gCall.error.kind = "Token error" =>
        /\ gCall.pc = "threw"
        /\ gCall.issued = 0
        /\ gCall.attempt = 0
        /\ ~respOk(gCall.tokenResp)
        /\ gCall.error.status = gCall.tokenResp.status
        /\ gCall.error.body = gCall.tokenResp.body
        /\ gCall.error.status \in {400, 401}
        /\ gCall.error.body = "invalid_client"

\* g has failed on a token exchange answered 401 invalid_client.
C24_Witness ==
    /\ gCall.pc = "threw"
    /\ gCall.error = [kind |-> "Token error", status |-> 401, body |-> "invalid_client"]
    /\ gCall.issued = 0

\* C25: the token attached to an attempt of g is one that the credential
\* cache hands out for that attempt: a token that was more than 60 seconds
\* before its expiry when g obtained it and came within 60 seconds of it
\* during the backoff sleeps is not sent on a later attempt.
C25_TokenFreshAtEveryAttempt ==
    (gCall.pc = "fetching" /\ gCall.tokenLeft > 60000) =>
        gCall.tokenLeft - gCall.slept > 60000

\* C26: calls of getGraphToken that overlap make at most one token exchange
\* each; a call returns the token of its own successful exchange, or the
\* token of the slot, which a successful exchange produced; and the slot
\* holds the token and the expiry of the exchange whose data were read last.
C26_SlotHoldsLastExchange ==
    /\ tokenLog.exchanges <= tokenLog.calls
    /\ tokenLog.ret.via = "exchange" =>
          /\ respOk(tokenLog.ret.resp)
          /\ tokenLog.ret.token = tokenLog.ret.resp.access_token
    /\ tokenLog.ret.via = "cache" => tokenLog.ret.token \in AccessTokens
    /\ tokenLog.stores = 0 => cachedToken = NoToken
    /\ tokenLog.stores > 0 =>
          /\ respOk(tokenLog.completed.resp)
          /\ cachedToken.token = tokenLog.completed.resp.access_token
          /\ cachedToken.exp =
                (tokenLog.completed.at \div 1000) + expiresIn(tokenLog.completed.resp)

\* Two calls found the slot empty and awaited their exchanges at once; both
\* exchanges have settled, a second apart, and the slot holds what the
\* second one stored over the first.
C26_Witness ==
    /\ tokenLog.peak = 2
    /\ tokenLog.calls = 2
    /\ tokenLog.exchanges = 2
    /\ tokenLog.stores = 2
    /\ \A c \in TokenCallers : tokenCalls[c].pc = "idle"
    /\ tokenLog.completed.at = 1000
    /\ tokenLog.ret.via = "exchange"
    /\ cachedToken = [token |-> "token-b", exp |-> 62]

\* C27: after a successful token exchange whose data are read at second t,
\* the slot holds the expiry t + L for every lifetime L >= 0 that the answer
\* reported, and t + 3600 when the answer reported none.
C27_ExpiryIsCompletionPlusLifetime ==
    tokenLog.ret.via = "exchange" =>
        cachedToken.exp =
            (tokenLog.ret.at \div 1000) +
            (IF tokenLog.ret.resp.expires_in = <<>>
             THEN 3600
             ELSE tokenLog.ret.resp.expires_in[1])

(***************************************************************************)
(* The tools.                                                              *)
(***************************************************************************)
\* The parts of the result that were pushed for the id at index i.
PartsAt(i) == SelectSeq(toolCall.content, LAMBDA p : p.at = i)

\* The result has, for the id at index i, a part of that type and sense.
HasPart(i, type, says) ==
    \E k \in 1..Len(PartsAt(i)) : PartsAt(i)[k].type = type /\ PartsAt(i)[k].says = says

\* The handler is through with the id at index i.
Settled(i) == i < toolCall.at \/ toolCall.pc = "done"

\* A MIME type of the text family with a size that is a number below
\* 1,000,000.
SmallText(meta) ==
    /\ meta.mime # <<>>
    /\ \/ meta.mime[1] = "text"
       \/ meta.mime \in {<<"application", "/", "json">>, <<"application", "/", "xml">>,
                         <<"application", "/", "javascript">>}
    /\ meta.size # <<>>
    /\ meta.size[1] < 1000000

\* C28: the fetch tool returns the content of a file inline exactly when its
\* MIME type is of the text family and its size is a number below
\* 1,000,000; for every other file it returns a reference link, and it
\* downloads the content of no other file.
C28_InlineExactlyForSmallText ==
    toolCall.tool = "fetch" =>
        /\ \A i \in 1..Len(toolCall.metas) :
              (toolCall.metas[i].file /\ Settled(i)) =>
                  IF SmallText(toolCall.metas[i])
                  THEN i \in toolCall.failed \/ HasPart(i, "text", "content")
                  ELSE /\ HasPart(i, "resource_link", "link")
                       /\ ~HasPart(i, "text", "content")
        /\ Len(toolCall.downloaded) =
              Cardinality({i \in 1..Len(toolCall.metas) :
                              toolCall.metas[i].file /\ SmallText(toolCall.metas[i])})

\* C29: when Graph.getItemById resolves with an item that is not a file, the
\* fetch tool answers for that id with one part saying so, the handler does
\* not throw, and nothing is downloaded for it.
C29_NotAFileIsANormalResult ==
    toolCall.tool = "fetch" =>
        /\ \A i \in 1..Len(toolCall.metas) :
              (~toolCall.metas[i].file /\ i \notin toolCall.failed) =>
                  /\ Settled(i)
                  /\ Len(PartsAt(i)) = 1
                  /\ PartsAt(i)[1].says = "Not a file"
        /\ toolCall.outcome = "threw" => toolCall.at \in toolCall.failed
        /\ Len(toolCall.downloaded) <=
              Cardinality({i \in 1..Len(toolCall.metas) : toolCall.metas[i].file})

\* part_003 has answered a batch of two ids, neither of them a file, with
\* two parts and without a download.
C29_Witness ==
    /\ variant = "part_003"
    /\ toolCall.pc = "done"
    /\ toolCall.outcome = "returned"
    /\ toolCall.ids = <<"item-b", "item-a">>
    /\ toolCall.failed = {}
    /\ \A i \in 1..2 : ~toolCall.metas[i].file
    /\ Len(toolCall.content) = 2
    /\ toolCall.downloaded = <<>>

C36_InFlightKeyHasNoLiveEntry ==
    /\ [](\A key \in DOMAIN inFlightQueries :
             /\ Cardinality({c \in Callers :
                    /\ callers[c].pc = "starter"
                    /\ cacheKey(callers[c].q, callers[c].top) = key}) = 1
             /\ ~cacheLive(queryCache, key, now))
    /\ [][\A key \in DOMAIN queryCache' :
             (key \notin DOMAIN queryCache \/ queryCache'[key] # queryCache[key]) =>
                /\ key \in DOMAIN inFlightQueries
                /\ key \notin DOMAIN inFlightQueries']_vars

\* A search is in flight for a key whose cache entry has expired, and a
\* second caller waits for it.
C36_Witness ==
    \E key \in DOMAIN inFlightQueries :
        /\ key \in DOMAIN queryCache
        /\ ~cacheLive(queryCache, key, now)
        /\ \E c \in Callers :
              callers[c].pc = "joiner" /\ cacheKey(callers[c].q, callers[c].top) = key

(***************************************************************************)
(* C38.  Query cache entries are never removed.  Every step keeps every    *)
(* key of the cache, and changes the entry of a key only when a successful *)
(* search for that key returns; an expired entry stays until then.  The    *)
(* keys of the cache are exactly the keys searched successfully so far.    *)
(***************************************************************************)
C38_CacheKeysOnlyGrow ==
    /\ [][\A key \in DOMAIN queryCache :
             /\ key \in DOMAIN queryCache'
             /\ queryCache'[key] # queryCache[key] =>
                   /\ lastReturn'.via = "start"
                   /\ lastReturn'.outcome = "returned"
                   /\ cacheKey(lastReturn'.q, lastReturn'.top) = key]_vars
    /\ [](DOMAIN queryCache =
             {<<"search:", k[1], ":", k[2]>> : k \in {x \in SearchKeys : obtained[x].present}})

\* An expired entry is still in the cache, next to the entry of another key,
\* while no search is running.
C38_Witness ==
    /\ \E key \in DOMAIN queryCache : ~cacheLive(queryCache, key, now)
    /\ \E key \in DOMAIN queryCache : cacheLive(queryCache, key, now)
    /\ Cardinality(DOMAIN queryCache) >= 2
    /\ inFlightQueries = EmptyMap

(***************************************************************************)
(* C37.  The cached credential changes only through a successful token     *)
(* exchange: a step that changes the slot is the step of a call of         *)
(* getGraphToken whose exchange was answered with an ok status, and it     *)
(* writes the token and expiry of that answer.  A failed exchange and every *)
(* step of g, the arrival of a 401 of the resource included, leave the     *)
(* slot as it was.                                                         *)
(***************************************************************************)
C37_SlotChangesOnlyOnExchange ==
    [][/\ cachedToken' # cachedToken =>
             \E c \in TokenCallers :
                 /\ tokenCalls[c].pc = "parsing"
                 /\ respOk(tokenCalls[c].resp)
                 /\ tokenCalls'[c] = IdleTokenCall
                 /\ cachedToken'.token = tokenCalls[c].resp.access_token
                 /\ tokenLog'.stores = tokenLog.stores + 1
       /\ (\E c \in TokenCallers : tokenCalls[c].pc = "failing" /\ tokenCalls'[c].pc = "idle")
             => cachedToken' = cachedToken
       /\ gCall' # gCall => cachedToken' = cachedToken]_vars

\* The slot holds a token, a later exchange has failed, and the resource
\* has answered the call of g with 401.
C37_Witness ==
    /\ cachedToken # NoToken
    /\ tokenLog.ret.via = "error"
    /\ gCall.pc = "threw"
    /\ gCall.resp.status = 401

(***************************************************************************)
(* The tool catalogue and the tool calls of POST /mcp.                     *)
(***************************************************************************)

(***************************************************************************)
(* C33.  In an initialized batch every tools/list is answered with the     *)
(* same static catalogue, which lists search and fetch, and the names      *)
(* that tools/call dispatches to a handler are exactly the listed ones: a  *)
(* call of a listed name runs a handler, and every handler that ran was    *)
(* called under a listed name.                                             *)
(***************************************************************************)
C33_ListedIsCallable ==
    \A r \in Requests : \A i \in Answered(r) :
        LET request == requests[r][i]
            listed == {"search", "fetch"}
        IN  /\ (request.method = "tools/list" /\ InitializeBefore(r, i)) =>
                  /\ responses[r][i] = ResultEnvelope(ToolsListResult, request.id)
                  /\ ToolsListResult.payload = "search,fetch"
            /\ (/\ request.method = "tools/call"
                /\ InitializeBefore(r, i)
                /\ request.params.present
                /\ request.params.name \in listed) => i \in Invoked(r)
            /\ i \in Invoked(r) => request.params.name \in listed

(***************************************************************************)
(* C31.  In an initialized batch, a tools/call of search whose arguments   *)
(* are an object {query, top} runs the search handler, and when the        *)
(* upstream search answers, the items it found are the result of the       *)
(* entry.                                                                  *)
(***************************************************************************)
C31_SearchReturnsFoundItems ==
    \A r \in Requests : \A i \in Answered(r) :
        LET request == requests[r][i]
        IN  (/\ request.method = "tools/call"
             /\ InitializeBefore(r, i)
             /\ request.params.present
             /\ request.params.name = "search") =>
                /\ i \in Invoked(r)
                /\ \A c \in calls[r] :
                      (c.idx = i /\ c.up = "ok") =>
                         responses[r][i] =
                            ResultEnvelope(ToolResult("search", "content"), request.id)

(***************************************************************************)
(* The search tool of part_000 (mcpTools.search).                          *)
(***************************************************************************)

(***************************************************************************)
(* C34.  Empty queries are rejected by the tool layer: whenever the search *)
(* tool of part_000 has been called with a query whose normalized          *)
(* (lower-cased, trimmed) text is empty, whitespace-only queries included, *)
(* it has returned the empty result without calling Graph.search, that is  *)
(* without a cache lookup and without an upstream search.                  *)
(***************************************************************************)
C34_EmptyQueryStopsAtTool ==
    (/\ variant = "part_000"
     /\ toolCall.tool = "search"
     /\ normalizedQuery(toolCall.query) = <<>>) =>
        /\ toolCall.pc = "done"
        /\ toolCall.outcome = "returned"
        /\ toolCall.content = <<>>

(***************************************************************************)
(* C32.  For every item that the upstream search returned, whatever the    *)
(* length of its name and of its URL, the preview text of its search       *)
(* record is at most 500 characters long and contains the marker           *)
(* [Call fetch(id) for full content].                                      *)
(***************************************************************************)
C32_PreviewKeepsMarker ==
    (variant = "part_000" /\ toolCall.tool = "search" /\ toolCall.failed = {}) =>
        \A i \in 1..Len(toolCall.content) :
            LET text == toolCall.content[i].text
            IN  /\ Len(text) <= 500
                /\ \E k \in 1..Len(text) :
                      /\ k + Len(fetchMarker) - 1 <= Len(text)
                      /\ SubSeq(text, k, k + Len(fetchMarker) - 1) = fetchMarker

(***************************************************************************)
(* C35.  A call of the fetch tool leaves the query cache and the in-flight *)
(* query map as they are: every step of the fetch tool, from its call to   *)
(* its return, keeps both maps, and every step that changes one of them is *)
(* a step of a caller of Graph.search.                                     *)
(***************************************************************************)
C35_FetchLeavesSearchMaps ==
    [][/\ toolCall' # toolCall =>
             /\ queryCache' = queryCache
             /\ inFlightQueries' = inFlightQueries
       /\ (queryCache' # queryCache \/ inFlightQueries' # inFlightQueries) =>
             /\ callers' # callers
             /\ toolCall' = toolCall]_vars

\* The fetch tool awaits Graph.getItemById while the cache holds an entry
\* and a search is in flight.
C35_Witness ==
    /\ toolCall.tool = "fetch"
    /\ toolCall.pc = "meta"
    /\ queryCache # EmptyMap
    /\ inFlightQueries # EmptyMap

(***************************************************************************)
(* The routes.                                                             *)
(***************************************************************************)

(***************************************************************************)
(* C39.  POST /mcp/sse keeps no session state: whatever it answered        *)
(* before, an initialize gets the initialize result, a tools/list gets the *)
(* catalogue, and a tools/call of search or fetch is run and gets the      *)
(* result of the tool; none of them is answered with an error about the    *)
(* initialization.                                                         *)
(***************************************************************************)
C39_SseHasNoSession ==
    (/\ variant = "part_000"
     /\ http.route = "POST /mcp/sse"
     /\ http.pc # "idle") =>
        LET request == http.request
            sent == http.pc = "sent"
        IN  /\ (sent /\ request.method = "initialize") =>
                  /\ http.status = 200
                  /\ http.reply = ResultEnvelope(
                                     InitializeResult(chosen(variant,
                                                             request.params.protocolVersion)),
                                     request.id)
            /\ (sent /\ request.method = "tools/list") =>
                  /\ http.status = 200
                  /\ http.reply = ResultEnvelope(ToolsListResult, request.id)
            /\ (request.method = "tools/call" /\ request.params.name \in {"search", "fetch"}) =>
                  \/ http.pc = "upstream"
                  \/ /\ http.status = 200
                     /\ http.reply.kind = "result"
                     /\ http.reply.result.tool = request.params.name
            /\ sent => http.reply.message \notin {<<"Not initialized">>,
                                                  <<"Already initialized">>}

\* A tools/call was served before any initialize, and the second initialize
\* in a row has just got its result.
C39_Witness ==
    /\ variant = "part_000"
    /\ http.route = "POST /mcp/sse"
    /\ http.pc = "sent"
    /\ http.served = <<"tools/call", "initialize", "initialize">>
    /\ http.reply.result.type = "initialize"

(***************************************************************************)
(* C40.  No upstream call is made for an HTTP request that did not present *)
(* a valid bearer credential: whenever the handler of a route awaits the   *)
(* repository (Graph.search, Graph.getItemById, Graph.downloadById, each   *)
(* of which goes through the token exchange and g), the Authorization      *)
(* header of the request is one that the bearer check lets through.        *)
(***************************************************************************)
C40_UpstreamOnlyBehindBearer ==
    http.pc = "upstream" => auth(variant, http.authorization) = "next"

====
